---- MODULE Spec2Model ----
(***************************************************************************)
(* Model of the legal-document translation pipeline:                       *)
(*   - filterSegmentsBySettings / createBatches (pure functions),          *)
(*   - runTranslationPipeline (windowed, cancellable batch scheduler),     *)
(*   - handleTranslateAll / handleCancelTranslation (the caller in App),   *)
(*   - parseDocx's choice of parts, parseTranslationResponse,              *)
(*     replaceParagraphText and classifyLegalSection (pure functions).     *)
(***************************************************************************)
EXTENDS Integers, Sequences, FiniteSets, TLC

(***************************************************************************)
(* Bounds of the model.                                                    *)
(***************************************************************************)
MaxUnits == 3
MaxTextLen == 2
MaxBatchSize == 2
MaxCharsPerBatch == 3
MaxConcurrent == 2
MaxDocs == 2
MaxBatchUnits == 4
MaxExtra == 2
MaxRuns == 3
MaxRunLen == 2
MaxTransLen == 6
MaxTitleWords == 2

(***************************************************************************)
(* Values.                                                                 *)
(***************************************************************************)
\* JavaScript's undefined (an unset optional field, a missing Map entry).
undefined == "<undefined>"

\* A character for each paragraph of each part, so that the texts of
\* different units of one document differ.
PartChars ==
  [body |-> <<"a", "b", "c", "d", "e", "f">>,
   header |-> <<"h", "i", "j", "k", "l", "m">>,
   footer |-> <<"p", "q", "r", "s", "t", "u">>,
   footnotes |-> <<"v", "w", "x", "y", "z", "n">>]

RECURSIVE Rep(_, _)
Rep(c, n) == IF n = 0 THEN "" ELSE c \o Rep(c, n - 1)

RECURSIVE SumSeq(_)
SumSeq(s) == IF s = << >> THEN 0 ELSE Head(s) + SumSeq(Tail(s))

RECURSIVE Flatten(_)
Flatten(ss) == IF ss = << >> THEN << >> ELSE Head(ss) \o Flatten(Tail(ss))

Min(a, b) == IF a < b THEN a ELSE b

Range(s) == {s[k] : k \in DOMAIN s}

\* A TextSegment as extractParagraphSegments creates it.
NewSegment(i, text, location) ==
  [id |-> i, text |-> text, location |-> location,
   status |-> "pending", translatedText |-> undefined]

(***************************************************************************)
(* createBatches                                                           *)
(***************************************************************************)
\* Mutant: the unit cap is tested one unit too late.
batchFull_OffByOne(currentBatch, config) == Len(currentBatch) > config.batchSize

batchFull(currentBatch, config) == Len(currentBatch) >= config.batchSize

\* Mutant: the character test ignores the unit about to be appended.
tooManyChars_IgnoresNext(currentBatch, currentChars, segmentChars, config) ==
  currentChars > config.maxCharsPerBatch /\ Len(currentBatch) > 0

tooManyChars(currentBatch, currentChars, segmentChars, config) ==
  currentChars + segmentChars > config.maxCharsPerBatch /\ Len(currentBatch) > 0

NewBatch(batchId, currentBatch, startIndex, currentChars) ==
  [id |-> batchId, segments |-> currentBatch, startIndex |-> startIndex,
   totalCharacters |-> currentChars, status |-> "pending", retryCount |-> 0]

\* The loop state of createBatches before any segment is visited.
BatchLoopInit ==
  [batches |-> << >>, currentBatch |-> << >>, currentChars |-> 0,
   startIndex |-> 0, batchId |-> 0]

\* One iteration of the for loop: segment is segments[i] (i is 0-based).
BatchLoopStep(st, segment, i, config) ==
  LET segmentChars == Len(segment.text)
      flush == batchFull(st.currentBatch, config)
               \/ tooManyChars(st.currentBatch, st.currentChars, segmentChars, config)
      st1 == IF flush
             THEN [batches |-> Append(st.batches,
                                 NewBatch(st.batchId, st.currentBatch,
                                          st.startIndex, st.currentChars)),
                   currentBatch |-> << >>, currentChars |-> 0,
                   startIndex |-> i, batchId |-> st.batchId + 1]
             ELSE st
  IN [st1 EXCEPT !.currentBatch = Append(st1.currentBatch, segment),
                 !.currentChars = st1.currentChars + segmentChars]

RECURSIVE BatchLoop(_, _, _, _)
BatchLoop(st, segments, i, config) ==
  IF i >= Len(segments) THEN st
  ELSE BatchLoop(BatchLoopStep(st, segments[i + 1], i, config), segments, i + 1, config)

\* Mutant: the segments remaining after the loop are not added.
createBatches_DropsRemainder(segments, config) ==
  BatchLoop(BatchLoopInit, segments, 0, config).batches

createBatches(segments, config) ==
  LET st == BatchLoop(BatchLoopInit, segments, 0, config)
  IN IF Len(st.currentBatch) > 0
     THEN Append(st.batches,
                 NewBatch(st.batchId, st.currentBatch, st.startIndex, st.currentChars))
     ELSE st.batches

(***************************************************************************)
(* filterSegmentsBySettings, parseDocx and the configuration               *)
(***************************************************************************)
FilterKeep(segment, cfg) ==
  /\ ~(segment.location = "header" /\ ~cfg.translateHeaders)
  /\ ~(segment.location = "footer" /\ ~cfg.translateFooters)
  /\ ~(segment.location = "footnote" /\ ~cfg.translateFootnotes)

\* Mutant: the settings are ignored and every segment is kept.
filterSegmentsBySettings_KeepsAll(segs, cfg) == segs

filterSegmentsBySettings(segs, cfg) ==
  SelectSeq(segs, LAMBDA s : FilterKeep(s, cfg))

\* The ids of a list of segments: the model's form of a list of references
\* to the segment objects of parsedDocx.segments.
Ids(segs) == [k \in DOMAIN segs |-> segs[k].id]

\* The checkbox settings of the document panel.
Settings == [translateHeaders : BOOLEAN, translateFootnotes : BOOLEAN]

\* The configuration handleTranslateAll builds: DEFAULT_CONFIG overridden by
\* the settings; one checkbox controls both headers and footers.  The three
\* numeric limits of DEFAULT_CONFIG are scaled to the bounds of the model.
BuildConfig(st, batchSize, maxChars, maxConcurrent) ==
  [batchSize |-> batchSize, maxCharsPerBatch |-> maxChars,
   maxConcurrentBatches |-> maxConcurrent,
   translateHeaders |-> st.translateHeaders,
   translateFooters |-> st.translateHeaders,
   translateFootnotes |-> st.translateFootnotes]

\* The parts of a container that hold paragraphs, in the order parseDocx
\* scans them.
PartOrder == <<"body", "header", "footer">>

\* All the parts of a container that hold paragraphs: those parseDocx may
\* scan, and word/footnotes.xml.
ContainerParts == PartOrder \o <<"footnotes">>
PartRank(part) == CHOOSE r \in DOMAIN ContainerParts : ContainerParts[r] = part

\* The files of n non-blank paragraphs drawn from the given kinds: each
\* paragraph has the part it lives in and whether it is inside a table cell;
\* paragraphs are listed part by part.
ParagraphsOf(n, kinds) ==
  {f \in [1..n -> kinds] :
     \A k \in 1..(n - 1) : PartRank(f[k].part) <= PartRank(f[k + 1].part)}

\* Files without tables and without footnotes.
Paragraphs(n) == ParagraphsOf(n, [part : Range(PartOrder), inTable : {FALSE}])

Files == UNION {Paragraphs(n) : n \in 0..MaxUnits}

\* Files with paragraphs in every part, inside and outside tables.
ContainerFiles ==
  UNION {ParagraphsOf(n, [part : Range(ContainerParts), inTable : BOOLEAN]) :
           n \in 0..MaxUnits}

\* The position of paragraph k of a file within its part.
PosInPart(file, k) == Cardinality({j \in 1..k : file[j].part = file[k].part})

\* The length of the text of the j-th paragraph of a part: the lengths
\* 1..MaxTextLen in rotation, so that short and long texts both occur.
ParaLen(j) == 1 + (j % MaxTextLen)

\* The text of paragraph k of a file.
ParaText(file, k) ==
  Rep(PartChars[file[k].part][PosInPart(file, k)], ParaLen(PosInPart(file, k)))

\* Mutant: header and footer parts are scanned whatever the settings.
filesToParse_IgnoresSettings(st) == {"body", "header", "footer"}

\* The parts parseDocx scans: the body always, header parts when
\* translateHeaders is set, footer parts when translateFootnotes is set.
filesToParse(st) ==
  {"body"} \cup (IF st.translateHeaders THEN {"header"} ELSE {})
           \cup (IF st.translateFootnotes THEN {"footer"} ELSE {})

\* The location extractParagraphSegments gives a paragraph of a scanned
\* part: the location the part was listed with, or table-cell when the
\* paragraph has a w:tc ancestor.
actualLocation(para) == IF para.inTable THEN "table-cell" ELSE para.part

parseDocx(file, st) ==
  LET kept == SelectSeq([k \in DOMAIN file |->
                           [part |-> file[k].part, text |-> ParaText(file, k),
                            inTable |-> file[k].inTable]],
                        LAMBDA para : para.part \in filesToParse(st))
  IN [k \in DOMAIN kept |-> NewSegment(k, kept[k].text, actualLocation(kept[k]))]

(***************************************************************************)
(* translateBatchLegalText: the collaborator's reply and its normalisation *)
(***************************************************************************)
\* What the collaborator returns for one text.
Translate(text) == "T" \o text

\* A reply whose JSON carries m translations for the n requested texts.
Reply(texts, m) ==
  [parses |-> TRUE,
   translations |-> [k \in 1..m |-> IF k <= Len(texts) THEN Translate(texts[k])
                                     ELSE "extra"]]

\* A reply in which no JSON object with a translations array is found.
Unparseable == [parses |-> FALSE, translations |-> << >>]

\* The replies the collaborator may give for a request.
Replies(texts) == {Reply(texts, m) : m \in 0..(Len(texts) + 1)} \cup {Unparseable}

\* Mutant: a short list is returned as it is, without padding.
parseTranslationResponse_NoPad(response, originalTexts) ==
  IF ~response.parses THEN originalTexts
  ELSE IF Len(response.translations) > Len(originalTexts)
       THEN SubSeq(response.translations, 1, Len(originalTexts))
       ELSE response.translations

\* parseTranslationResponse: pad with the original texts, then trim to the
\* requested length; a reply that does not parse falls back to the originals.
parseTranslationResponse(response, originalTexts) ==
  IF ~response.parses THEN originalTexts
  ELSE LET got == response.translations
           padded == [k \in 1..(IF Len(got) < Len(originalTexts)
                                 THEN Len(originalTexts) ELSE Len(got)) |->
                        IF k <= Len(got) THEN got[k] ELSE originalTexts[k]]
       IN IF Len(padded) > Len(originalTexts)
          THEN SubSeq(padded, 1, Len(originalTexts))
          ELSE padded

(***************************************************************************)
(* State                                                                   *)
(***************************************************************************)
VARIABLES
  settings,          \* the checkbox settings
  config,            \* the TranslationConfig of the run
  numDocs,           \* documents.length when handleTranslateAll started
  docIdx,            \* position of the for-of loop over the documents
  completed,         \* handleTranslateAll's completed counter
  tdStatus,          \* status of each translated-document placeholder
  isTranslating,     \* the isTranslating flag of App
  aborted,           \* signal.aborted of the run's AbortController
  pc,                \* the await or callback the control flow is at
  allSegments,       \* parsedDocx.segments
  segments,          \* the eligible segments (references)
  batches,           \* the batches of the run
  i,                 \* loop variable of the window loop
  inflight,          \* batches whose translateBatchLegalText call is pending
  translations,      \* the Map from segment id to final text
  processedSegments, \* units processed so far
  errors,            \* the errors array
  progressLog,       \* the calls of callbacks.onProgress, in order
  result,            \* the TranslationResult returned, if any
  dispatchLog,       \* the batches handed to translateBatchLegalText, in order
  rebuildArgs,       \* the mapping of each rebuildDocx call, in order
  call,              \* the arguments of a function called on its own
  ret                \* what that call returned

fnVars == <<call, ret>>
callerVars == <<settings, config, numDocs, docIdx, completed, tdStatus, isTranslating>>
signalVars == <<aborted>>
pipeVars == <<allSegments, segments, batches, i, inflight, translations,
              processedSegments, errors, progressLog, result, dispatchLog,
              rebuildArgs>>
vars == <<callerVars, signalVars, pc, pipeVars, fnVars>>

NoResult == [kind |-> "none"]

\* No function is being called on its own.
NoCall == [fn |-> "none"]

\* The configurations of the runs.  With the character cap at
\* MaxCharsPerBatch the cap splits the batches of some files and not of others.
Configs ==
  {BuildConfig(st, bs, MaxCharsPerBatch, cc) :
     st \in Settings, bs \in 1..MaxBatchSize, cc \in 1..MaxConcurrent}

\* The batches of the run, with their members held as references.
BatchesOf(allSegs, eligible, cfg) ==
  LET bs == createBatches([k \in DOMAIN eligible |-> allSegs[eligible[k]]], cfg)
  IN [b \in DOMAIN bs |-> [bs[b] EXCEPT !.segments = Ids(bs[b].segments)]]

Progress(phase, currentSegment, totalSegments, currentBatch, totalBatches) ==
  [phase |-> phase, currentSegment |-> currentSegment,
   totalSegments |-> totalSegments, currentBatch |-> currentBatch,
   totalBatches |-> totalBatches]

PipeInit ==
  /\ allSegments = << >>
  /\ segments = << >>
  /\ batches = << >>
  /\ i = 0
  /\ inflight = {}
  /\ translations = << >>
  /\ processedSegments = 0
  /\ errors = << >>
  /\ progressLog = << >>
  /\ result = NoResult
  /\ dispatchLog = << >>
  /\ rebuildArgs = << >>

Init ==
  /\ settings \in Settings
  /\ config \in {c \in Configs : /\ c.translateHeaders = settings.translateHeaders
                                 /\ c.translateFootnotes = settings.translateFootnotes}
  /\ numDocs = 0
  /\ docIdx = 0
  /\ completed = 0
  /\ tdStatus = << >>
  /\ isTranslating = FALSE
  /\ aborted = FALSE
  /\ pc = "idle"
  /\ PipeInit
  /\ call = NoCall
  /\ ret = NoCall

(***************************************************************************)
(* runTranslationPipeline                                                  *)
(***************************************************************************)
\* Mutant: the window is not cut to maxConcurrentBatches batches.
batchGroup_AllRemaining(i0) == i0..(Len(batches) - 1)

\* The batches of the window that starts at batch i0 (batch indexes are
\* 0-based as in the code; batches[b + 1] is batch b).
batchGroup(i0) == i0..(Min(i0 + config.maxConcurrentBatches, Len(batches)) - 1)

\* Mutant: the check at the head of the window loop is missing.
CheckAbort_SkipsLoop(site) == site # "loop" /\ aborted

\* if (signal?.aborted) at one of the four check sites of the pipeline:
\* "start", "analysis", "loop" (head of the window loop), "final".
CheckAbort(site) == aborted

\* throw new DOMException("Translation cancelled", "AbortError")
ThrowAbort == pc' = "threw"

\* return of a TranslationResult to the caller
Return(r) == /\ result' = r
             /\ pc' = "returned"

\* Mutant: a reply that arrives after the abort is dropped.
StoreTranslations_DropsAfterAbort(batch, response) ==
  IF aborted
  THEN UNCHANGED <<translations, allSegments>>
  ELSE /\ translations' =
            [id \in DOMAIN translations \cup Range(batch.segments) |->
               IF id \in Range(batch.segments)
               THEN response[CHOOSE k \in DOMAIN batch.segments : batch.segments[k] = id]
               ELSE translations[id]]
       /\ allSegments' =
            [id \in DOMAIN allSegments |->
               IF id \in Range(batch.segments)
               THEN [allSegments[id] EXCEPT
                       !.translatedText =
                          response[CHOOSE k \in DOMAIN batch.segments : batch.segments[k] = id],
                       !.status = "completed"]
               ELSE allSegments[id]]

\* Store the translations of a batch whose call returned.
StoreTranslations(batch, response) ==
  /\ translations' =
       [id \in DOMAIN translations \cup
               {batch.segments[k] : k \in {j \in DOMAIN batch.segments :
                                             j \in DOMAIN response}} |->
          IF \E k \in DOMAIN batch.segments : batch.segments[k] = id /\ k \in DOMAIN response
          THEN response[CHOOSE k \in DOMAIN batch.segments : batch.segments[k] = id]
          ELSE translations[id]]
  /\ allSegments' =
       [id \in DOMAIN allSegments |->
          IF \E k \in DOMAIN batch.segments : batch.segments[k] = id /\ k \in DOMAIN response
          THEN [allSegments[id] EXCEPT
                  !.translatedText =
                     response[CHOOSE k \in DOMAIN batch.segments : batch.segments[k] = id],
                  !.status = "completed"]
          ELSE allSegments[id]]

\* Mutant: on error the segments are marked but get no fallback text.
KeepOriginal_NoFallback(batch) ==
  /\ UNCHANGED translations
  /\ allSegments' =
       [id \in DOMAIN allSegments |->
          IF id \in Range(batch.segments)
          THEN [allSegments[id] EXCEPT !.status = "error"]
          ELSE allSegments[id]]

\* On error, keep the original text of every segment of the batch.
KeepOriginal(batch) ==
  /\ translations' =
       [id \in DOMAIN translations \cup Range(batch.segments) |->
          IF id \in Range(batch.segments) THEN allSegments[id].text
          ELSE translations[id]]
  /\ allSegments' =
       [id \in DOMAIN allSegments |->
          IF id \in Range(batch.segments)
          THEN [allSegments[id] EXCEPT !.translatedText = allSegments[id].text,
                                       !.status = "error"]
          ELSE allSegments[id]]

\* Mutant: the segments without a mapping entry are left without one.
MarkExcluded_Skipped == UNCHANGED <<translations, allSegments>>

\* Mark excluded segments as completed with original text: every segment
\* without a mapping entry gets its own text.
MarkExcluded ==
  /\ translations' =
       [id \in DOMAIN allSegments |->
          IF id \in DOMAIN translations THEN translations[id]
          ELSE allSegments[id].text]
  /\ allSegments' =
       [id \in DOMAIN allSegments |->
          IF id \in DOMAIN translations THEN allSegments[id]
          ELSE [allSegments[id] EXCEPT !.translatedText = allSegments[id].text,
                                       !.status = "completed"]]

\* The head of the window loop for loop variable i0, and what follows the
\* loop when i0 is past the last batch.
LoopHead(i0) ==
  IF i0 < Len(batches)
  THEN IF CheckAbort("loop")
       THEN /\ ThrowAbort
            /\ UNCHANGED <<allSegments, segments, batches, i, inflight, translations,
                           processedSegments, errors, progressLog, result,
                           dispatchLog, rebuildArgs>>
       ELSE /\ i' = i0
            /\ inflight' = inflight \cup batchGroup(i0)
            /\ batches' = [b \in DOMAIN batches |->
                             IF (b - 1) \in batchGroup(i0)
                             THEN [batches[b] EXCEPT !.status = "translating"]
                             ELSE batches[b]]
            /\ dispatchLog' = dispatchLog \o
                 [k \in 1..Cardinality(batchGroup(i0)) |-> i0 + k - 1]
            /\ pc' = "window"
            /\ UNCHANGED <<allSegments, segments, translations, processedSegments,
                           errors, progressLog, result, rebuildArgs>>
  ELSE /\ MarkExcluded
       /\ i' = i0
       /\ IF CheckAbort("final")
          THEN /\ ThrowAbort
               /\ UNCHANGED <<progressLog, rebuildArgs>>
          ELSE /\ progressLog' = Append(progressLog,
                    Progress("rebuilding", Len(segments), Len(segments),
                             Len(batches), Len(batches)))
               /\ rebuildArgs' = Append(rebuildArgs, translations')
               /\ pc' = "rebuilding"
       /\ UNCHANGED <<segments, batches, inflight, processedSegments, errors,
                      result, dispatchLog>>

\* The entries of the errors array.
NoContentError ==
  [batchId |-> undefined, message |-> "No translatable text found in document.",
   recoverable |-> FALSE]
BatchError(batch) ==
  [batchId |-> batch.id, message |-> "Batch translation failed", recoverable |-> TRUE]
RebuildError ==
  [batchId |-> undefined, message |-> "Failed to rebuild document",
   recoverable |-> FALSE]

\* Mutant: the check for an empty list of eligible segments is missing.
NoTranslatableText_Unchecked(eligible) == FALSE

\* if (segments.length === 0)
NoTranslatableText(eligible) == Len(eligible) = 0

\* The pipeline from its call to its first await: filter, the empty check,
\* the first abort check and the "analyzing" progress report.
PipelineStart ==
  /\ pc = "start"
  /\ LET eligible == Ids(filterSegmentsBySettings(allSegments, config))
     IN /\ segments' = eligible
        /\ IF NoTranslatableText(eligible)
           THEN /\ Return([kind |-> "returned", success |-> FALSE, hasOutput |-> FALSE,
                           totalSegments |-> 0, successfulSegments |-> 0,
                           failedSegments |-> 0,
                           errors |-> <<NoContentError>>])
                /\ UNCHANGED progressLog
           ELSE IF CheckAbort("start")
                THEN ThrowAbort /\ UNCHANGED <<result, progressLog>>
                ELSE /\ progressLog' = Append(progressLog,
                          Progress("analyzing", 0, Len(eligible), 0, 0))
                     /\ pc' = "analyzing"
                     /\ UNCHANGED result
  /\ UNCHANGED <<fnVars, callerVars, signalVars, allSegments, batches, i, inflight,
                 translations, processedSegments, errors, dispatchLog, rebuildArgs>>

\* analyzeLegalDocumentContext settled (a failure falls back to a generic
\* context): abort check, createBatches, the "translating" progress report.
AnalysisDone ==
  /\ pc = "analyzing"
  /\ IF CheckAbort("analysis")
     THEN ThrowAbort /\ UNCHANGED <<batches, progressLog>>
     ELSE /\ batches' = BatchesOf(allSegments, segments, config)
          /\ progressLog' = Append(progressLog,
               Progress("translating", 0, Len(segments), 0, Len(batches')))
          /\ pc' = "cb_translating"
  /\ UNCHANGED <<fnVars, callerVars, signalVars, allSegments, segments, i, inflight,
                 translations, processedSegments, errors, result, dispatchLog,
                 rebuildArgs>>

\* The progress callback returned: enter the window loop with i = 0.
StartLoop ==
  /\ pc = "cb_translating"
  /\ LoopHead(0)
  /\ UNCHANGED <<fnVars, callerVars, signalVars>>

\* batch.segments.map((s) => s.text) for batch b
BatchTexts(b) ==
  [k \in DOMAIN batches[b + 1].segments |-> allSegments[batches[b + 1].segments[k]].text]

\* The call of batch b returned a reply.
BatchSucceeded(b, reply) ==
  /\ pc = "window"
  /\ b \in inflight
  /\ LET batch == batches[b + 1]
         texts == BatchTexts(b)
     IN /\ reply \in Replies(texts)
        /\ StoreTranslations(batch, parseTranslationResponse(reply, texts))
  /\ batches' = [batches EXCEPT ![b + 1].status = "completed"]
  /\ inflight' = inflight \ {b}
  /\ UNCHANGED <<fnVars, callerVars, signalVars, pc, segments, i, processedSegments, errors,
                 progressLog, result, dispatchLog, rebuildArgs>>

\* The call of batch b failed (all retries and the fallback model failed).
BatchFailed(b) ==
  /\ pc = "window"
  /\ b \in inflight
  /\ KeepOriginal(batches[b + 1])
  /\ batches' = [batches EXCEPT ![b + 1].status = "error"]
  /\ errors' = Append(errors, BatchError(batches[b + 1]))
  /\ inflight' = inflight \ {b}
  /\ UNCHANGED <<fnVars, callerVars, signalVars, pc, segments, i, processedSegments,
                 progressLog, result, dispatchLog, rebuildArgs>>

\* Mutant: the loop goes on without awaiting the window's calls.
WindowJoined_NoWait ==
  /\ pc = "window"
  /\ processedSegments' = processedSegments +
       SumSeq([k \in 1..Cardinality(batchGroup(i)) |->
                 Len(batches[i + k].segments)])
  /\ progressLog' = Append(progressLog,
       Progress("translating", processedSegments', Len(segments),
                Min(i + config.maxConcurrentBatches, Len(batches)), Len(batches)))
  /\ pc' = "cb_window"
  /\ UNCHANGED <<fnVars, callerVars, signalVars, allSegments, segments, batches, i, inflight,
                 translations, errors, result, dispatchLog, rebuildArgs>>

\* Mutant: the batch count reported is not capped at the number of batches.
WindowJoined_UncappedBatchCount ==
  /\ pc = "window"
  /\ inflight = {}
  /\ processedSegments' = processedSegments +
       SumSeq([k \in 1..Cardinality(batchGroup(i)) |->
                 Len(batches[i + k].segments)])
  /\ progressLog' = Append(progressLog,
       Progress("translating", processedSegments', Len(segments),
                i + config.maxConcurrentBatches, Len(batches)))
  /\ pc' = "cb_window"
  /\ UNCHANGED <<fnVars, callerVars, signalVars, allSegments, segments, batches, i,
                 inflight, translations, errors, result, dispatchLog, rebuildArgs>>

\* Promise.all of the window resolved: count its units and report progress.
WindowJoined ==
  /\ pc = "window"
  /\ inflight = {}
  /\ processedSegments' = processedSegments +
       SumSeq([k \in 1..Cardinality(batchGroup(i)) |->
                 Len(batches[i + k].segments)])
  /\ progressLog' = Append(progressLog,
       Progress("translating", processedSegments', Len(segments),
                Min(i + config.maxConcurrentBatches, Len(batches)), Len(batches)))
  /\ pc' = "cb_window"
  /\ UNCHANGED <<fnVars, callerVars, signalVars, allSegments, segments, batches, i, inflight,
                 translations, errors, result, dispatchLog, rebuildArgs>>

\* Mutant: the loop variable advances by one batch, not by one window.
AdvanceWindow_StepsByOne ==
  /\ pc = "cb_window"
  /\ LoopHead(i + 1)
  /\ UNCHANGED <<fnVars, callerVars, signalVars>>

\* The progress callback returned: next iteration of the window loop.
AdvanceWindow ==
  /\ pc = "cb_window"
  /\ LoopHead(i + config.maxConcurrentBatches)
  /\ UNCHANGED <<fnVars, callerVars, signalVars>>

\* Mutant: the total counts the eligible segments only.
SuccessResult_CountsEligible ==
  [kind |-> "returned", success |-> TRUE, hasOutput |-> TRUE,
   totalSegments |-> Len(segments),
   successfulSegments |->
     Cardinality({id \in DOMAIN allSegments : allSegments[id].status = "completed"}),
   failedSegments |->
     Cardinality({id \in DOMAIN allSegments : allSegments[id].status = "error"}),
   errors |-> errors]

\* The result returned after a successful rebuild.
SuccessResult ==
  [kind |-> "returned", success |-> TRUE, hasOutput |-> TRUE,
   totalSegments |-> Len(allSegments),
   successfulSegments |->
     Cardinality({id \in DOMAIN allSegments : allSegments[id].status = "completed"}),
   failedSegments |->
     Cardinality({id \in DOMAIN allSegments : allSegments[id].status = "error"}),
   errors |-> errors]

\* The result returned from the catch around rebuildDocx.
RebuildFailureResult ==
  [kind |-> "returned", success |-> FALSE, hasOutput |-> FALSE,
   totalSegments |-> Len(allSegments),
   successfulSegments |-> Cardinality(DOMAIN translations),
   failedSegments |-> Len(allSegments) - Cardinality(DOMAIN translations),
   errors |-> Append(errors, RebuildError)]

\* rebuildDocx resolved: report "complete" and return the successful result.
RebuildResolved ==
  /\ pc = "rebuilding"
  /\ progressLog' = Append(progressLog,
       Progress("complete", Len(segments), Len(segments), Len(batches), Len(batches)))
  /\ Return(SuccessResult)
  /\ UNCHANGED <<fnVars, callerVars, signalVars, allSegments, segments, batches, i, inflight,
                 translations, processedSegments, errors, dispatchLog, rebuildArgs>>

\* rebuildDocx rejected: return the failure result.
RebuildRejected ==
  /\ pc = "rebuilding"
  /\ Return(RebuildFailureResult)
  /\ UNCHANGED <<fnVars, callerVars, signalVars, allSegments, segments, batches, i, inflight,
                 translations, processedSegments, errors, progressLog, dispatchLog,
                 rebuildArgs>>

(***************************************************************************)
(* handleTranslateAll and handleCancelTranslation                          *)
(***************************************************************************)
\* parsedDocx and the state of the finished pipeline call go out of scope.
PipeReset ==
  /\ allSegments' = << >>
  /\ segments' = << >>
  /\ batches' = << >>
  /\ i' = 0
  /\ inflight' = {}
  /\ translations' = << >>
  /\ processedSegments' = 0
  /\ errors' = << >>
  /\ progressLog' = << >>
  /\ result' = NoResult
  /\ dispatchLog' = << >>
  /\ rebuildArgs' = << >>

\* The code after the for-of loop: isTranslating goes back to false.
Finish ==
  /\ isTranslating' = FALSE
  /\ pc' = "done"
  /\ UNCHANGED docIdx

\* completed++ and the next iteration of the for-of loop, which begins with
\* "if (signal.aborted) break" and then awaits parseDocx.
NextDoc ==
  /\ completed' = completed + 1
  /\ IF docIdx < numDocs /\ ~aborted
     THEN /\ docIdx' = docIdx + 1
          /\ pc' = "parsing"
          /\ UNCHANGED isTranslating
     ELSE Finish

\* handleTranslateAll up to its first await: a fresh AbortController, one
\* placeholder in status processing per document, the first parseDocx call.
TranslateAll ==
  /\ pc = "idle"
  /\ numDocs' = MaxDocs
  /\ tdStatus' = [d \in 1..MaxDocs |-> "processing"]
  /\ aborted' = FALSE
  /\ isTranslating' = TRUE
  /\ completed' = 0
  /\ docIdx' = 1
  /\ pc' = "parsing"
  /\ UNCHANGED <<fnVars, settings, config, pipeVars>>

\* parseDocx resolved with the segments of the file; runTranslationPipeline
\* is called on them.
ParseResolved ==
  /\ pc = "parsing"
  /\ \E file \in Files : allSegments' = parseDocx(file, settings)
  /\ pc' = "start"
  /\ UNCHANGED <<fnVars, callerVars, signalVars, segments, batches, i, inflight, translations,
                 processedSegments, errors, progressLog, result, dispatchLog,
                 rebuildArgs>>

\* parseDocx rejected (not a zip archive): the generic catch marks the
\* placeholder as error.
ParseRejected ==
  /\ pc = "parsing"
  /\ tdStatus' = [tdStatus EXCEPT ![docIdx] = "error"]
  /\ NextDoc
  /\ UNCHANGED <<fnVars, settings, config, numDocs, signalVars, pipeVars>>

\* runTranslationPipeline returned a result.
HandleResult ==
  /\ pc = "returned"
  /\ tdStatus' = [tdStatus EXCEPT ![docIdx] =
                    IF result.success /\ result.hasOutput THEN "completed" ELSE "error"]
  /\ NextDoc
  /\ PipeReset
  /\ UNCHANGED <<fnVars, settings, config, numDocs, signalVars>>

\* runTranslationPipeline threw the AbortError: log and break.
HandleAbortError ==
  /\ pc = "threw"
  /\ Finish
  /\ PipeReset
  /\ UNCHANGED <<fnVars, settings, config, numDocs, completed, tdStatus, signalVars>>

\* The places where other code runs while a translation is under way: the
\* awaits of handleTranslateAll and of the pipeline, and the progress
\* callbacks the window loop checks the signal after.
SuspensionPoints ==
  {"parsing", "analyzing", "cb_translating", "window", "cb_window", "rebuilding"}

\* handleCancelTranslation: abort the run's controller.
Cancel ==
  /\ isTranslating
  /\ ~aborted
  /\ pc \in SuspensionPoints
  /\ aborted' = TRUE
  /\ UNCHANGED <<fnVars, callerVars, pc, pipeVars>>

Next ==
  \/ TranslateAll
  \/ ParseResolved
  \/ ParseRejected
  \/ PipelineStart
  \/ AnalysisDone
  \/ StartLoop
  \/ \E b \in inflight : \E reply \in Replies(BatchTexts(b)) : BatchSucceeded(b, reply)
  \/ \E b \in inflight : BatchFailed(b)
  \/ WindowJoined
  \/ AdvanceWindow
  \/ RebuildResolved
  \/ RebuildRejected
  \/ HandleResult
  \/ HandleAbortError
  \/ Cancel

Spec == Init /\ [][Next]_vars

(***************************************************************************)
(* createBatches on its own: every list of up to MaxBatchUnits eligible    *)
(* units with texts of 1..MaxTextLen characters, under every unit cap and  *)
(* character cap of the bounds.                                            *)
(***************************************************************************)
UnitLists ==
  UNION {{[k \in 1..n |-> NewSegment(k, Rep(PartChars.body[k], len[k]), "body")] :
            len \in [1..n -> 1..MaxTextLen]} : n \in 0..MaxBatchUnits}

BatchConfigs ==
  {BuildConfig([translateHeaders |-> TRUE, translateFootnotes |-> TRUE], bs, mc, 1) :
     bs \in 1..MaxBatchSize, mc \in 1..MaxCharsPerBatch}

InitBatches ==
  /\ settings = [translateHeaders |-> TRUE, translateFootnotes |-> TRUE]
  /\ config \in BatchConfigs
  /\ numDocs = 0
  /\ docIdx = 0
  /\ completed = 0
  /\ tdStatus = << >>
  /\ isTranslating = FALSE
  /\ aborted = FALSE
  /\ pc = "createBatches"
  /\ allSegments \in UnitLists
  /\ segments = Ids(allSegments)
  /\ batches = << >>
  /\ i = 0
  /\ inflight = {}
  /\ translations = << >>
  /\ processedSegments = 0
  /\ errors = << >>
  /\ progressLog = << >>
  /\ result = NoResult
  /\ dispatchLog = << >>
  /\ rebuildArgs = << >>
  /\ call = NoCall
  /\ ret = NoCall

\* One call of createBatches on the eligible units.
CallCreateBatches ==
  /\ pc = "createBatches"
  /\ batches' = BatchesOf(allSegments, segments, config)
  /\ pc' = "batched"
  /\ UNCHANGED <<fnVars, callerVars, signalVars, allSegments, segments, i, inflight,
                 translations, processedSegments, errors, progressLog, result,
                 dispatchLog, rebuildArgs>>

NextBatches == CallCreateBatches

SpecBatches == InitBatches /\ [][NextBatches]_vars

(***************************************************************************)
(* Properties of createBatches                                             *)
(***************************************************************************)
\* The text length of the unit with the given id.
Chars(id) == Len(allSegments[id].text)

\* The member lists of the batches, in batch order.
MemberLists == [b \in DOMAIN batches |-> batches[b].segments]

\* C1: the member lists of the batches returned by createBatches,
\* concatenated in batch order, are exactly the eligible unit list (same
\* units, same order, none duplicated or dropped), and the batch unit counts
\* sum to the eligible unit count.
C1_BatchesPartitionUnits ==
  pc = "batched" =>
    /\ Flatten(MemberLists) = segments
    /\ SumSeq([b \in DOMAIN batches |-> Len(batches[b].segments)]) = Len(segments)

\* C1 witness: a list split into several batches, one of them with more
\* than one unit.
C1_Witness ==
  /\ pc = "batched"
  /\ Len(batches) >= 2
  /\ \E b \in DOMAIN batches : Len(batches[b].segments) >= 2
  /\ Flatten(MemberLists) = segments

\* C2: every batch produced by createBatches has at most batchSize units,
\* or holds exactly one unit.
C2_UnitCap ==
  pc = "batched" =>
    \A b \in DOMAIN batches :
      \/ Len(batches[b].segments) <= config.batchSize
      \/ Len(batches[b].segments) = 1

\* C2 witness: a batch that was closed because it had reached batchSize
\* (more than one unit, and the next unit would still have fitted the
\* character cap).
C2_Witness ==
  /\ pc = "batched"
  /\ config.batchSize >= 2
  /\ \E b \in DOMAIN batches :
       /\ b < Len(batches)
       /\ Len(batches[b].segments) = config.batchSize
       /\ batches[b].totalCharacters + Chars(batches[b + 1].segments[1])
            <= config.maxCharsPerBatch

\* C3: every batch has totalCharacters <= maxCharsPerBatch unless it is a
\* single unit whose own text is longer than maxCharsPerBatch, and each
\* batch's totalCharacters is the sum of the text lengths of its members.
C3_CharCap ==
  pc = "batched" =>
    \A b \in DOMAIN batches :
      /\ \/ batches[b].totalCharacters <= config.maxCharsPerBatch
         \/ /\ Len(batches[b].segments) = 1
            /\ Chars(batches[b].segments[1]) > config.maxCharsPerBatch
      /\ batches[b].totalCharacters =
           SumSeq([k \in DOMAIN batches[b].segments |-> Chars(batches[b].segments[k])])

\* C3 witness: one batch is a single oversized unit, and another batch was
\* closed by the character cap before it reached batchSize.
C3_Witness ==
  /\ pc = "batched"
  /\ \E b \in DOMAIN batches :
       /\ Len(batches[b].segments) = 1
       /\ batches[b].totalCharacters > config.maxCharsPerBatch
  /\ \E b \in DOMAIN batches :
       /\ b < Len(batches)
       /\ Len(batches[b].segments) < config.batchSize
       /\ batches[b].totalCharacters <= config.maxCharsPerBatch
       /\ batches[b].totalCharacters + Chars(batches[b + 1].segments[1])
            > config.maxCharsPerBatch

(***************************************************************************)
(* Properties of runTranslationPipeline                                    *)
(***************************************************************************)
\* The batch indexes (0-based, as in the code).
BatchIndexes == 0..(Len(batches) - 1)

\* The number of windows of the run.
NumWindows ==
  (Len(batches) + config.maxConcurrentBatches - 1) \div config.maxConcurrentBatches

\* The window (1-based) batch b belongs to.
WindowOf(b) == (b \div config.maxConcurrentBatches) + 1

\* The units of batch b.
UnitsOf(b) == Range(batches[b + 1].segments)

\* The call of batch b has completed or failed.
Settled(b) == batches[b + 1].status \in {"completed", "error"}

\* The batches whose translation call is dispatched and not yet settled.
Translating == {b \in BatchIndexes : batches[b + 1].status = "translating"}

\* The outcome of batch b's call is recorded on each of its units.
Recorded(b) ==
  /\ Settled(b)
  /\ \A id \in UnitsOf(b) :
       /\ allSegments[id].status \in {"completed", "error"}
       /\ allSegments[id].translatedText # undefined
       /\ id \in DOMAIN translations
       /\ translations[id] = allSegments[id].translatedText

\* The phase of the last progress report ("idle" before the first).
LastPhase ==
  IF progressLog = << >> THEN "idle" ELSE progressLog[Len(progressLog)].phase

\* C4: at every moment of a run, the translation calls dispatched and not
\* yet completed or failed number at most maxConcurrentBatches.
C4_BoundedConcurrency ==
  /\ Translating = inflight
  /\ Cardinality(Translating) <= config.maxConcurrentBatches

\* C4 witness: a full window of two calls in flight while further batches
\* wait for a later window.
C4_Witness ==
  /\ pc = "window"
  /\ config.maxConcurrentBatches >= 2
  /\ Cardinality(Translating) = config.maxConcurrentBatches
  /\ Len(batches) > i + config.maxConcurrentBatches

\* C5: windows are joined: a step that dispatches batches is taken only
\* when every batch dispatched before has completed or failed, whatever the
\* order of the collaborator's responses.
C5_WindowsJoined ==
  [][Len(dispatchLog') > Len(dispatchLog) =>
       \A k \in 1..Len(dispatchLog) : Settled(dispatchLog[k])]_vars

\* C5 witness: the second window is in flight after a first window of two
\* batches of which one completed and one failed.
C5_Witness ==
  /\ pc = "window"
  /\ i = 2
  /\ inflight # {}
  /\ batches[1].status = "error"
  /\ batches[2].status = "completed"

\* C6: cancellation is honoured at window boundaries: no step taken while
\* the signal is set dispatches a batch; a call in flight when the signal is
\* set still settles, and its outcome is recorded on its units; and the
\* pipeline throws only with no call in flight and every dispatched batch
\* recorded.
C6_CancelAtBoundary ==
  [][/\ aborted => Len(dispatchLog') <= Len(dispatchLog)
     /\ (aborted /\ pc = "window" /\ inflight' # inflight) =>
          /\ pc' = "window"
          /\ \A b \in inflight \ inflight' : Recorded(b)'
     /\ pc' = "threw" =>
          /\ inflight' = {}
          /\ \A k \in 1..Len(dispatchLog') : Recorded(dispatchLog[k])']_vars

\* C6 witness: the pipeline has thrown at a window boundary with batches of
\* later windows never dispatched and the results of the dispatched window
\* (a completed and a failed batch) recorded.
C6_Witness ==
  /\ pc = "threw"
  /\ aborted
  /\ Len(dispatchLog) = 2
  /\ Len(batches) > 2
  /\ batches[1].status = "completed"
  /\ batches[2].status = "error"
  /\ Recorded(0) /\ Recorded(1)

\* C7: when the signal is set at the boundary after window 1 of 3 (window 1
\* has completed, window 2 is not dispatched yet), the run ends there by
\* throwing: every unit of the batches of windows 2 and 3 has status
\* pending, and rebuildDocx has not been and is not invoked.
C7_CancelAfterWindowOne ==
  [][(aborted /\ pc = "cb_window" /\ i = 0 /\ NumWindows = 3) =>
       /\ pc' = "threw"
       /\ rebuildArgs' = << >>
       /\ \A b \in BatchIndexes :
            WindowOf(b) >= 2 =>
              \A id \in UnitsOf(b) : /\ allSegments'[id].status = "pending"
                                     /\ allSegments'[id].translatedText = undefined
                                     /\ id \notin DOMAIN translations']_vars

\* C7 witness: a run of three windows that threw after the progress report
\* of window 1, with windows 2 and 3 never dispatched.
C7_Witness ==
  /\ pc = "threw"
  /\ NumWindows = 3
  /\ i = 0
  /\ Len(progressLog) = 3
  /\ LastPhase = "translating"
  /\ \A b \in BatchIndexes : WindowOf(b) = 1 <=> Settled(b)
  /\ \A b \in BatchIndexes :
       WindowOf(b) >= 2 => \A id \in UnitsOf(b) : allSegments[id].status = "pending"

\* C8: a cancelled run surfaces a Cancelled outcome: the pipeline ends with
\* a result and a reported phase "cancelled", and handleTranslateAll ends
\* with the placeholder of the document being translated no longer
\* processing but reported as cancelled.
C8_CancelledSurfaced ==
  /\ pc = "threw" => /\ result.kind = "returned"
                     /\ LastPhase = "cancelled"
  /\ (pc = "done" /\ aborted) => tdStatus[docIdx] # "processing"

\* C9: when the call of a batch fails, every unit of the batch has status
\* error and its own original text as translatedText and as mapping entry,
\* and a recoverable error naming the batch is recorded; the failure does
\* not end the run: a run that returns after a batch failure has processed
\* every window and called rebuildDocx, and returns success unless
\* rebuildDocx itself failed.
C9_BatchFailureFallsBack ==
  /\ \A b \in BatchIndexes :
       batches[b + 1].status = "error" =>
         /\ \A id \in UnitsOf(b) :
              /\ allSegments[id].status = "error"
              /\ allSegments[id].translatedText = allSegments[id].text
              /\ id \in DOMAIN translations
              /\ translations[id] = allSegments[id].text
         /\ \E k \in DOMAIN errors :
              /\ errors[k].batchId = batches[b + 1].id
              /\ errors[k].recoverable
  /\ (pc = "returned" /\ \E b \in BatchIndexes : batches[b + 1].status = "error") =>
       /\ \A b \in BatchIndexes : Settled(b)
       /\ Len(dispatchLog) = Len(batches)
       /\ Len(rebuildArgs) = 1
       /\ \/ result.success /\ result.hasOutput /\ result.errors = errors
          \/ /\ ~result.success
             /\ result.errors[Len(result.errors)] = RebuildError

\* C9 witness: a run returned success although the batch of its first
\* window had failed, the later window having been translated.
C9_Witness ==
  /\ pc = "returned"
  /\ result.success
  /\ Len(batches) >= 2
  /\ batches[1].status = "error"
  /\ batches[Len(batches)].status = "completed"
  /\ WindowOf(Len(batches) - 1) >= 2
  /\ result.failedSegments >= 1

\* C10: whenever rebuildDocx is called, the mapping it receives has an
\* entry for every parsed unit, and the entry is the unit's translatedText
\* (the translation, or the unit's original text as fallback).
C10_RebuildMappingTotal ==
  \A r \in DOMAIN rebuildArgs :
    /\ DOMAIN rebuildArgs[r] = DOMAIN allSegments
    /\ \A id \in DOMAIN allSegments :
         /\ rebuildArgs[r][id] = allSegments[id].translatedText
         /\ rebuildArgs[r][id] # undefined
         /\ allSegments[id].status \in {"completed", "error"}

\* C10 witness: rebuild has begun for a document with a unit excluded by
\* the settings, a unit of a failed batch and a translated unit.
C10_Witness ==
  /\ pc = "rebuilding"
  /\ Len(rebuildArgs) = 1
  /\ Len(segments) < Len(allSegments)
  /\ \E id \in DOMAIN allSegments : allSegments[id].status = "error"
  /\ \E id \in DOMAIN allSegments :
       rebuildArgs[1][id] = Translate(allSegments[id].text)

\* The units the settings of the run exclude from translation.
Excluded == {id \in DOMAIN allSegments : ~FilterKeep(allSegments[id], config)}

\* C11: a unit filtered out by the settings is in no batch (so in no
\* request to the translation collaborator), and whenever rebuildDocx is
\* called its mapping entry is its own original text and its status is
\* completed.
C11_ExcludedKeptOriginal ==
  \A id \in Excluded :
    /\ id \notin Range(segments)
    /\ \A b \in DOMAIN batches : id \notin Range(batches[b].segments)
    /\ \A r \in DOMAIN rebuildArgs :
         /\ rebuildArgs[r][id] = allSegments[id].text
         /\ allSegments[id].translatedText = allSegments[id].text
         /\ allSegments[id].status = "completed"

\* C11 witness: a run returned success for a document with an excluded
\* footer unit, its other units having been sent and translated.
C11_Witness ==
  /\ pc = "returned"
  /\ result.success
  /\ Len(rebuildArgs) = 1
  /\ \E id \in Excluded : /\ allSegments[id].location = "footer"
                           /\ rebuildArgs[1][id] = allSegments[id].text
  /\ Len(dispatchLog) >= 1
  /\ \A id \in Range(segments) :
       rebuildArgs[1][id] = Translate(allSegments[id].text)

(***************************************************************************)
(* parseDocx and filterSegmentsBySettings on their own: every file of up   *)
(* to MaxUnits paragraphs in the body, header, footer and footnotes parts, *)
(* inside and outside tables, under every setting of the two checkboxes.   *)
(***************************************************************************)
InitEligible ==
  /\ settings \in Settings
  /\ config = BuildConfig(settings, MaxBatchSize, MaxCharsPerBatch, MaxConcurrent)
  /\ numDocs = 0
  /\ docIdx = 0
  /\ completed = 0
  /\ tdStatus = << >>
  /\ isTranslating = FALSE
  /\ aborted = FALSE
  /\ pc = "parsing"
  /\ PipeInit
  /\ call \in {[fn |-> "parseDocx", file |-> f] : f \in ContainerFiles}
  /\ ret = NoCall

\* parseDocx on the file with the settings, then the filter the pipeline
\* applies to the parsed segments with the configuration built from the
\* same settings.
ParseAndFilter ==
  /\ pc = "parsing"
  /\ call.fn = "parseDocx"
  /\ allSegments' = parseDocx(call.file, settings)
  /\ segments' = Ids(filterSegmentsBySettings(allSegments', config))
  /\ pc' = "filtered"
  /\ UNCHANGED <<fnVars, callerVars, signalVars, batches, i, inflight, translations,
                 processedSegments, errors, progressLog, result, dispatchLog,
                 rebuildArgs>>

NextEligible == ParseAndFilter

SpecEligible == InitEligible /\ [][NextEligible]_vars

\* Paragraph k of the file became a unit that is eligible for translation.
Sent(k) ==
  \E id \in Range(segments) : allSegments[id].text = ParaText(call.file, k)

\* C12: eligibility follows the per-location toggles: header and footer
\* units are sent to translation exactly when the headers/footers toggle is
\* on, footnote units exactly when the footnotes toggle is on, and body and
\* table-cell units under every combination of the toggles.  (Stated for
\* the paragraphs outside tables of each part and for the table cells of the
\* body.)
C12_EligibilityFollowsToggles ==
  pc = "filtered" =>
    \A k \in DOMAIN call.file :
      LET para == call.file[k]
      IN /\ para.part = "body" => Sent(k)
         /\ (para.part \in {"header", "footer"} /\ ~para.inTable) =>
              (Sent(k) <=> settings.translateHeaders)
         /\ (para.part = "footnotes" /\ ~para.inTable) =>
              (Sent(k) <=> settings.translateFootnotes)

\* The control flow is inside runTranslationPipeline, past its filter.
InPipeline ==
  pc \in {"analyzing", "cb_translating", "window", "cb_window", "rebuilding",
          "returned", "threw"}

\* C13: with zero eligible units the run ends at once in a terminal
\* failure: success=false with the single non-recoverable "no translatable
\* text" error, no progress reported, the context collaborator and the
\* translation collaborator not called and rebuildDocx not attempted.
C13_NoTranslatableContent ==
  (InPipeline /\ Len(segments) = 0) =>
    /\ pc = "returned"
    /\ ~result.success
    /\ ~result.hasOutput
    /\ result.errors = <<NoContentError>>
    /\ ~result.errors[1].recoverable
    /\ result.totalSegments = 0
    /\ progressLog = << >>
    /\ batches = << >>
    /\ dispatchLog = << >>
    /\ rebuildArgs = << >>

\* C13 witness: the run of a document whose only units are excluded by
\* the settings returned the failure.
C13_Witness ==
  /\ pc = "returned"
  /\ Len(allSegments) >= 1
  /\ Len(segments) = 0
  /\ ~result.success
  /\ result.errors = <<NoContentError>>

\* The batches whose call failed, and their units.
FailedBatches == {b \in BatchIndexes : batches[b + 1].status = "error"}
FailedBatchUnits == UNION {UnitsOf(b) : b \in FailedBatches}

\* The run returned from the catch around rebuildDocx.
RebuildFailed ==
  pc = "returned" /\ Len(rebuildArgs) = 1 /\ ~result.success

\* C14: when rebuildDocx fails after translation, the run is reported
\* failed: success=false, no output, the non-recoverable rebuild error
\* appended to the batch errors; and the reported counts state how many
\* units were and were not translated: failedSegments is the number of
\* units of the failed batches and successfulSegments the rest.
C14_RebuildFailureReport ==
  RebuildFailed =>
    /\ ~result.hasOutput
    /\ result.errors = Append(errors, RebuildError)
    /\ ~result.errors[Len(result.errors)].recoverable
    /\ result.totalSegments = Len(allSegments)
    /\ result.failedSegments = Cardinality(FailedBatchUnits)
    /\ result.successfulSegments = Len(allSegments) - Cardinality(FailedBatchUnits)

\* C15: a run in which at least one batch failed and rebuildDocx
\* succeeded returns success=true with an output, failedSegments equal to
\* the (non-zero) number of units of the failed batches, and
\* successfulSegments + failedSegments = totalSegments, the number of all
\* parsed units, those filtered out included.
C15_DegradedSuccess ==
  (pc = "returned" /\ result.success) =>
    /\ result.hasOutput
    /\ result.totalSegments = Len(allSegments)
    /\ result.failedSegments = Cardinality(FailedBatchUnits)
    /\ FailedBatches # {} => result.failedSegments > 0
    /\ result.successfulSegments + result.failedSegments = result.totalSegments
    /\ result.errors = errors
    /\ Len(errors) = Cardinality(FailedBatches)

\* C15 witness: a successful result for a document with a failed batch, a
\* translated batch and a unit excluded by the settings.
C15_Witness ==
  /\ pc = "returned"
  /\ result.success
  /\ FailedBatches # {}
  /\ FailedBatches # BatchIndexes
  /\ Excluded # {}
  /\ result.failedSegments >= 1
  /\ result.successfulSegments >= 2

\* The number of units in the batches of windows 1..w.
UnitsThroughWindow(w) ==
  SumSeq([b \in DOMAIN batches |->
            IF WindowOf(b - 1) <= w THEN Len(batches[b].segments) ELSE 0])

\* The last progress report.
LastReport == progressLog[Len(progressLog)]

\* C16: progress is reported exactly once after each window completes,
\* with phase translating: the step that ends window w (every batch of
\* windows 1..w completed or failed) appends one report whose units-so-far
\* is the number of units of windows 1..w and whose batches-completed is
\* min(w * maxConcurrentBatches, total batches); neither is less than in the
\* report before; after the last window they are the eligible unit count
\* and the batch count; and no other step after the start of the window loop
\* reports phase translating.
C16_ProgressPerWindow ==
  [][/\ (pc = "window" /\ pc' # "window") =>
          LET w == (i \div config.maxConcurrentBatches) + 1
          IN /\ \A b \in BatchIndexes : WindowOf(b) <= w => Settled(b)
             /\ progressLog' = Append(progressLog, LastReport')
             /\ LastReport'.phase = "translating"
             /\ LastReport'.currentSegment = UnitsThroughWindow(w)
             /\ LastReport'.currentBatch =
                  Min(w * config.maxConcurrentBatches, Len(batches))
             /\ LastReport'.totalSegments = Len(segments)
             /\ LastReport'.totalBatches = Len(batches)
             /\ LastReport'.currentSegment >= LastReport.currentSegment
             /\ LastReport'.currentBatch >= LastReport.currentBatch
             /\ w = NumWindows => /\ LastReport'.currentSegment = Len(segments)
                                  /\ LastReport'.currentBatch = Len(batches)
     /\ (pc \in {"cb_translating", "cb_window", "rebuilding"}
           /\ Len(progressLog') > Len(progressLog)) =>
          LastReport'.phase # "translating"]_vars

\* C16 witness: the report of the last window of a run whose last window
\* is not full, after the report of an earlier window.
C16_Witness ==
  /\ pc = "cb_window"
  /\ i > 0
  /\ i + config.maxConcurrentBatches > Len(batches)
  /\ Len(progressLog) = 4
  /\ LastReport.currentBatch = Len(batches)
  /\ LastReport.currentSegment = Len(segments)
  /\ progressLog[3].currentSegment < LastReport.currentSegment

(***************************************************************************)
(* translateBatchLegalText's handling of the reply on its own: every       *)
(* request of 1..MaxBatchUnits texts and every reply carrying from none to *)
(* MaxExtra more translations than requested, or nothing that parses.      *)
(***************************************************************************)
\* The requests: the texts of the units of a batch.
Requests ==
  {[k \in DOMAIN us |-> us[k].text] : us \in UnitLists \ {<< >>}}

\* The replies to a request, with lists longer than the request by up to
\* MaxExtra entries.
LongReplies(texts) ==
  {Reply(texts, m) : m \in 0..(Len(texts) + MaxExtra)} \cup {Unparseable}

InitResponse ==
  /\ settings = [translateHeaders |-> TRUE, translateFootnotes |-> TRUE]
  /\ config = BuildConfig(settings, MaxBatchSize, MaxCharsPerBatch, MaxConcurrent)
  /\ numDocs = 0
  /\ docIdx = 0
  /\ completed = 0
  /\ tdStatus = << >>
  /\ isTranslating = FALSE
  /\ aborted = FALSE
  /\ pc = "callGeminiAPI"
  /\ PipeInit
  /\ call \in {[fn |-> "parseTranslationResponse", response |-> r, originalTexts |-> t] :
                 t \in Requests, r \in UNION {LongReplies(t2) : t2 \in Requests}}
  /\ call.response \in LongReplies(call.originalTexts)
  /\ ret = NoCall

\* callGeminiAPI resolved with the response: translateBatchLegalText
\* returns what parseTranslationResponse makes of it.
ParseResponse ==
  /\ pc = "callGeminiAPI"
  /\ call.fn = "parseTranslationResponse"
  /\ ret' = [fn |-> call.fn, kind |-> "returned",
             translations |-> parseTranslationResponse(call.response, call.originalTexts)]
  /\ pc' = "parsed"
  /\ UNCHANGED <<call, callerVars, signalVars, pipeVars>>

NextResponse == ParseResponse

SpecResponse == InitResponse /\ [][NextResponse]_vars

\* C17: for every batch of n requested texts and every response carrying
\* a translations list of any length m, the list returned to the scheduler
\* has exactly n entries: the first min(m, n) are the response's entries in
\* order and each position past m holds the original text of that
\* position; the call returns and does not fail.
C17_PadOrTruncate ==
  (pc = "parsed" /\ call.response.parses) =>
    LET n == Len(call.originalTexts)
        m == Len(call.response.translations)
    IN /\ ret.kind = "returned"
       /\ Len(ret.translations) = n
       /\ \A k \in 1..n :
            ret.translations[k] = IF k <= m THEN call.response.translations[k]
                                  ELSE call.originalTexts[k]

\* C17 witness: a request of three texts answered with one translation, and
\* the two missing positions filled with the original texts.
C17_Witness ==
  /\ pc = "parsed"
  /\ Len(call.originalTexts) = 3
  /\ call.response.parses
  /\ Len(call.response.translations) = 1
  /\ ret.translations = <<Translate(call.originalTexts[1]), call.originalTexts[2],
                          call.originalTexts[3]>>

(***************************************************************************)
(* rebuildDocx's text injection and replaceParagraphText                   *)
(***************************************************************************)
\* A paragraph is the list of the texts of its w:t elements, in order.

\* The search for a space reaches this many characters to each side.
SpaceWindow == 5

Max(a, b) == IF a > b THEN a ELSE b

\* s.substring(from, to) for 0 <= from; to is clamped to the length.
substring(str, from, to) ==
  SubSeq(str, Min(from, Len(str)) + 1, Min(Max(to, from), Len(str)))

\* The concatenation of a list of strings.
RECURSIVE Concat(_)
Concat(strs) == IF strs = << >> THEN "" ELSE Head(strs) \o Concat(Tail(strs))

\* Math.round(remainingText.length * (originalLength / remainingOriginalLength)),
\* computed exactly (halves round up).  When remainingOriginalLength is 0
\* the quotient is NaN, which substring treats as 0.
targetLength(len, originalLength, remainingOriginalLength) ==
  IF remainingOriginalLength = 0 THEN 0
  ELSE (2 * len * originalLength + remainingOriginalLength)
         \div (2 * remainingOriginalLength)

\* The break point for a target: the position after the first space of the
\* window around the target, when the target is inside the text and the
\* window has a space.
breakPoint(remainingText, target) ==
  IF target > 0 /\ target < Len(remainingText)
  THEN LET searchStart == Max(0, target - SpaceWindow)
           searchEnd == Min(Len(remainingText), target + SpaceWindow)
           spaces == {q \in searchStart..(searchEnd - 1) :
                        substring(remainingText, q, q + 1) = " "}
       IN IF spaces = {} THEN target
          ELSE (CHOOSE q \in spaces : \A q2 \in spaces : q <= q2) + 1
  ELSE target

\* Mutant: the space the break was moved to is dropped from the text.
restOfText_SkipsSpace(remainingText, bp, target) ==
  IF bp # target THEN substring(remainingText, bp + 1, Len(remainingText))
  ELSE substring(remainingText, bp, Len(remainingText))

\* remainingText.substring(breakPoint)
restOfText(remainingText, bp, target) ==
  substring(remainingText, bp, Len(remainingText))

\* The loop over the runs from run k on: the new texts of runs k..N.
RECURSIVE Distribute(_, _, _, _)
Distribute(paragraph, k, remainingText, remainingOriginalLength) ==
  IF k = Len(paragraph) THEN <<remainingText>>
  ELSE LET originalLength == Len(paragraph[k])
           target == targetLength(Len(remainingText), originalLength,
                                  remainingOriginalLength)
           bp == breakPoint(remainingText, target)
       IN <<substring(remainingText, 0, bp)>> \o
          Distribute(paragraph, k + 1, restOfText(remainingText, bp, target),
                     remainingOriginalLength - originalLength)

\* replaceParagraphText(paragraph, translatedText): the texts of the w:t
\* elements of the paragraph afterwards.
replaceParagraphText(paragraph, translatedText) ==
  LET totalOriginalLength == SumSeq([k \in DOMAIN paragraph |-> Len(paragraph[k])])
  IN IF Len(paragraph) = 0 THEN paragraph
     ELSE IF Len(paragraph) = 1 THEN <<translatedText>>
     ELSE IF totalOriginalLength = 0
          THEN [k \in DOMAIN paragraph |-> IF k = 1 THEN translatedText ELSE ""]
          ELSE Distribute(paragraph, 1, translatedText, totalOriginalLength)

\* The locations of a unit.
Locations == {"body", "header", "footer", "footnote", "table-cell"}

\* rebuildDocx's flag for headers, footers, footnotes and table cells.
useSimpleReplacement(location) ==
  location \in {"header", "footer", "footnote", "table-cell"}

\* rebuildDocx's injection of a unit's translation: it computes the flag
\* and passes it as a third argument; replaceParagraphText declares two
\* parameters, so the flag has no effect on what it does.
InjectTranslation(paragraph, translation, location) ==
  LET flag == useSimpleReplacement(location)
  IN replaceParagraphText(paragraph, translation)

\* The paragraphs: 1..MaxRuns runs of 0..MaxRunLen characters each.
RunParagraphs ==
  UNION {[1..n -> {Rep("o", len) : len \in 0..MaxRunLen}] : n \in 1..MaxRuns}

\* The translated texts: words and spaces, up to MaxTransLen characters.
RECURSIVE TextsOfLen(_)
TextsOfLen(n) ==
  IF n = 0 THEN {""} ELSE {t \o c : t \in TextsOfLen(n - 1), c \in {"x", " "}}
TranslatedTexts == UNION {TextsOfLen(n) : n \in 0..MaxTransLen}

InitRebuild ==
  /\ settings = [translateHeaders |-> TRUE, translateFootnotes |-> TRUE]
  /\ config = BuildConfig(settings, MaxBatchSize, MaxCharsPerBatch, MaxConcurrent)
  /\ numDocs = 0
  /\ docIdx = 0
  /\ completed = 0
  /\ tdStatus = << >>
  /\ isTranslating = FALSE
  /\ aborted = FALSE
  /\ pc = "rebuildDocx"
  /\ PipeInit
  /\ call \in [fn : {"replaceParagraphText"}, paragraph : RunParagraphs,
                translation : TranslatedTexts, location : Locations]
  /\ ret = NoCall

\* rebuildDocx reaches the unit: its translation is injected into its
\* paragraph.
ReplaceText ==
  /\ pc = "rebuildDocx"
  /\ call.fn = "replaceParagraphText"
  /\ ret' = [fn |-> call.fn,
             paragraph |-> InjectTranslation(call.paragraph, call.translation,
                                             call.location)]
  /\ pc' = "replaced"
  /\ UNCHANGED <<call, callerVars, signalVars, pipeVars>>

NextRebuild == ReplaceText

SpecRebuild == InitRebuild /\ [][NextRebuild]_vars

\* C18: for every paragraph with N >= 1 text runs and every translated
\* text of length L, after replaceParagraphText the paragraph still has N
\* runs, their texts concatenated in run order are the translated text, and
\* their lengths sum to exactly L.
C18_RunsCarryWholeText ==
  pc = "replaced" =>
    /\ Len(ret.paragraph) = Len(call.paragraph)
    /\ Concat(ret.paragraph) = call.translation
    /\ SumSeq([k \in DOMAIN ret.paragraph |-> Len(ret.paragraph[k])])
         = Len(call.translation)

\* C18 witness: a paragraph of three runs, the middle one originally
\* empty, whose first boundary was moved from the proportional target to
\* just after a space.
C18_Witness ==
  /\ pc = "replaced"
  /\ call.location = "body"
  /\ Len(call.paragraph) = 3
  /\ Len(call.paragraph[1]) > 0
  /\ Len(call.paragraph[2]) = 0
  /\ Len(call.paragraph[3]) > 0
  /\ LET total == SumSeq([k \in DOMAIN call.paragraph |-> Len(call.paragraph[k])])
         target == targetLength(Len(call.translation), Len(call.paragraph[1]), total)
     IN /\ Len(ret.paragraph[1]) # target
        /\ substring(ret.paragraph[1], Len(ret.paragraph[1]) - 1,
                      Len(ret.paragraph[1])) = " "
  /\ Len(ret.paragraph[3]) > 0

\* C19: for a unit whose location is header, footer, footnote or
\* table-cell the injection is the single-run wholesale replacement
\* whatever the number of runs: the whole translated text is in one run and
\* every other run is empty.
C19_FragileLocationsWholesale ==
  (pc = "replaced" /\ useSimpleReplacement(call.location)) =>
    \E r \in DOMAIN ret.paragraph :
      /\ ret.paragraph[r] = call.translation
      /\ \A k \in DOMAIN ret.paragraph \ {r} : ret.paragraph[k] = ""

(***************************************************************************)
(* classifyLegalSection                                                    *)
(***************************************************************************)
\* The lower-case form of each upper-case letter.
LowerCase ==
  [A |-> "a", B |-> "b", C |-> "c", D |-> "d", E |-> "e", F |-> "f", G |-> "g",
   H |-> "h", I |-> "i", J |-> "j", K |-> "k", L |-> "l", M |-> "m", N |-> "n",
   O |-> "o", P |-> "p", Q |-> "q", R |-> "r", S |-> "s", T |-> "t", U |-> "u",
   V |-> "v", W |-> "w", X |-> "x", Y |-> "y", Z |-> "z"]

\* title.toLowerCase()
RECURSIVE toLowerCase(_)
toLowerCase(str) ==
  IF Len(str) = 0 THEN ""
  ELSE LET c == SubSeq(str, 1, 1)
       IN (IF c \in DOMAIN LowerCase THEN LowerCase[c] ELSE c)
            \o toLowerCase(SubSeq(str, 2, Len(str)))

\* The keyword occurs somewhere in the string.
Occurs(keyword, str) ==
  \E k \in 1..(Len(str) - Len(keyword) + 1) :
    SubSeq(str, k, k + Len(keyword) - 1) = keyword

\* The rules, in the order of the if statements: the section type and the
\* alternatives of its regular expression.
SectionRules ==
  <<[type |-> "preamble",
     keywords |-> {"preamble", "introduction", "parties", "between", "this agreement"}],
    [type |-> "recitals",
     keywords |-> {"recital", "whereas", "background", "premise"}],
    [type |-> "definitions",
     keywords |-> {"definition", "interpret", "meaning", "glossary"}],
    [type |-> "subject_matter",
     keywords |-> {"subject", "scope", "purpose", "object", "appointment"}],
    [type |-> "obligations",
     keywords |-> {"obligation", "duty", "duties", "responsibilities", "covenant",
                   "undertaking"}],
    [type |-> "payment",
     keywords |-> {"payment", "fee", "price", "compensation", "remuneration",
                   "consideration", "invoice"}],
    [type |-> "term_termination",
     keywords |-> {"term", "duration", "termination", "expir", "cancel", "withdrawal"}],
    [type |-> "confidentiality",
     keywords |-> {"confidential", "non-disclosure", "nda", "secrecy", "proprietary"}],
    [type |-> "liability",
     keywords |-> {"liabil", "indemnif", "damages", "limitation", "exclusion", "remedy"}],
    [type |-> "warranties",
     keywords |-> {"warrant", "represent", "guarantee", "assurance"}],
    [type |-> "dispute_resolution",
     keywords |-> {"dispute", "arbitrat", "jurisdiction", "governing law", "litigation",
                   "mediat", "applicable law"}],
    [type |-> "general_provisions",
     keywords |-> {"general", "miscellaneous", "sever", "amendment", "waiver",
                   "entire agreement", "notice", "force majeure"}],
    [type |-> "signatures",
     keywords |-> {"signature", "witness", "execut", "sign", "in witness whereof"}],
    [type |-> "schedules",
     keywords |-> {"schedule", "annex", "exhibit", "appendix", "attachment"}]>>

\* The regular expression of rule r matches the lower-cased title.
RuleMatches(r, lower) == \E kw \in SectionRules[r].keywords : Occurs(kw, lower)

\* The if statements from rule r on.
RECURSIVE classifyFrom(_, _)
classifyFrom(r, lower) ==
  IF r > Len(SectionRules) THEN "unknown"
  ELSE IF RuleMatches(r, lower) THEN SectionRules[r].type
  ELSE classifyFrom(r + 1, lower)

\* Mutant: a later rule that matches overrides an earlier one.
RECURSIVE classifyLast(_, _)
classifyLast(r, lower) ==
  IF r = 0 THEN "unknown"
  ELSE IF RuleMatches(r, lower) THEN SectionRules[r].type
  ELSE classifyLast(r - 1, lower)
classifyLegalSection_LastMatch(title) ==
  classifyLast(Len(SectionRules), toLowerCase(title))

classifyLegalSection(title) == classifyFrom(1, toLowerCase(title))

\* Words of headings: a keyword of every rule, in upper, lower and mixed
\* case, words that contain a keyword of another rule (Determination, the
\* parties), and a word without any keyword.
HeadingWords ==
  {"PREAMBLE", "WHEREAS, the parties", "Definitions", "Scope", "Duties",
   "Payment", "Termination", "CONFIDENTIALITY", "Liability", "Warranty",
   "Governing Law", "Notice", "Signatures", "annex", "Determination", "Other"}

\* The headings of up to n words.
RECURSIVE HeadingsOf(_)
HeadingsOf(n) ==
  IF n = 1 THEN HeadingWords
  ELSE HeadingsOf(n - 1) \cup
       {h \o " " \o w : h \in HeadingsOf(n - 1), w \in HeadingWords}

\* The titles: headings with and without a numbered prefix.  (The dash of
\* the prefix is written as a hyphen: it is in no keyword and has no lower
\* case.)
Titles ==
  {prefix \o h : prefix \in {"", "ARTICLE 5 - "}, h \in HeadingsOf(MaxTitleWords)}
    \cup {"WHEREAS, the parties wish..."}

InitClassify ==
  /\ settings = [translateHeaders |-> TRUE, translateFootnotes |-> TRUE]
  /\ config = BuildConfig(settings, MaxBatchSize, MaxCharsPerBatch, MaxConcurrent)
  /\ numDocs = 0
  /\ docIdx = 0
  /\ completed = 0
  /\ tdStatus = << >>
  /\ isTranslating = FALSE
  /\ aborted = FALSE
  /\ pc = "detectLegalSections"
  /\ PipeInit
  /\ call \in [fn : {"classifyLegalSection"}, title : Titles]
  /\ ret = NoCall

\* detectLegalSections classifies the title of a new section.
ClassifyTitle ==
  /\ pc = "detectLegalSections"
  /\ call.fn = "classifyLegalSection"
  /\ ret' = [fn |-> call.fn, type |-> classifyLegalSection(call.title)]
  /\ pc' = "classified"
  /\ UNCHANGED <<call, callerVars, signalVars, pipeVars>>

NextClassify == ClassifyTitle

SpecClassify == InitClassify /\ [][NextClassify]_vars

\* The order of the section types the classification is claimed to follow.
ClaimedOrder ==
  <<"preamble", "recitals", "definitions", "subject_matter", "obligations",
    "payment", "term_termination", "confidentiality", "liability", "warranties",
    "dispute_resolution", "general_provisions", "signatures", "schedules">>

\* The keywords of a section type.
KeywordsOf(type) ==
  UNION {SectionRules[r].keywords : r \in {q \in DOMAIN SectionRules :
                                             SectionRules[q].type = type}}

\* The positions in the claimed order of the types one of whose keywords
\* occurs in the title, case-insensitively.
MatchingPositions(title) ==
  {q \in DOMAIN ClaimedOrder :
     \E kw \in KeywordsOf(ClaimedOrder[q]) : Occurs(kw, toLowerCase(title))}

\* C20: classifyLegalSection is first-match-wins over the ordered rule
\* list: it returns the section type that comes first in the order preamble,
\* recitals, definitions, subject matter, obligations, payment,
\* term/termination, confidentiality, liability, warranties, dispute
\* resolution, general provisions, signatures, schedules among those with a
\* keyword occurring case-insensitively in the title, and unknown when there
\* is none; the heading ARTICLE 5 - CONFIDENTIALITY is classified
\* confidentiality.
C20_FirstMatchWins ==
  pc = "classified" =>
    /\ LET hits == MatchingPositions(call.title)
       IN ret.type = IF hits = {} THEN "unknown"
                     ELSE ClaimedOrder[CHOOSE q \in hits : \A q2 \in hits : q <= q2]
    /\ call.title = "ARTICLE 5 - CONFIDENTIALITY" => ret.type = "confidentiality"

\* C20 witness: a heading with keywords of two rules, classified by the
\* rule that comes first in the list although its keyword comes second in
\* the heading.
C20_Witness ==
  /\ pc = "classified"
  /\ call.title = "ARTICLE 5 - Termination Payment"
  /\ MatchingPositions(call.title) = {6, 7}
  /\ ret.type = "payment"

\* C21: the heading "WHEREAS, the parties wish..." is classified into the
\* recitals section type.
C21_WhereasIsRecitals ==
  (pc = "classified" /\ call.title = "WHEREAS, the parties wish...") =>
    ret.type = "recitals"

\* The dispatches (positions in dispatchLog) that include the unit.
DispatchesOf(id) == {k \in DOMAIN dispatchLog : id \in UnitsOf(dispatchLog[k])}

\* C29: in a run that is not cancelled (it reaches rebuildDocx), every
\* eligible unit is in exactly one batch dispatched to
\* translateBatchLegalText; in every run no unit is dispatched more than
\* once; and two batches in flight at the same time have no unit in common,
\* so they never write the mapping entry or status of the same unit.
C29_EachUnitDispatchedOnce ==
  /\ pc \in {"rebuilding", "returned"} =>
       \A id \in Range(segments) : Cardinality(DispatchesOf(id)) = 1
  /\ \A id \in DOMAIN allSegments : Cardinality(DispatchesOf(id)) <= 1
  /\ \A k1, k2 \in DOMAIN dispatchLog :
       k1 # k2 => dispatchLog[k1] # dispatchLog[k2]
  /\ \A b1, b2 \in inflight : b1 # b2 => UnitsOf(b1) \cap UnitsOf(b2) = {}

\* C29 witness: a run with three batches in two windows, the first window
\* with two batches in flight together, has returned a success and each of
\* its units was dispatched once.
C29_Witness ==
  /\ pc = "returned"
  /\ result.success
  /\ config.maxConcurrentBatches = 2
  /\ Len(batches) = 3
  /\ Len(dispatchLog) = 3
  /\ \A id \in Range(segments) : Cardinality(DispatchesOf(id)) = 1

\* C30: after handleTranslateAll finishes (isTranslating back to false),
\* none of the placeholders it created is still in status processing: each
\* is completed or error, also when the user cancelled.
C30_NoPlaceholderLeftProcessing ==
  (pc = "done" /\ ~isTranslating) =>
    \A d \in DOMAIN tdStatus : tdStatus[d] \in {"completed", "error"}

\* ---------------------------------------------------------------------
\* callGeminiAPI: retries with the requested model, then the fallback model
\* (geminiService.ts).  One step per await: the attempt settling, the
\* back-off timer firing.
\* ---------------------------------------------------------------------

TRANSLATION_MODEL == "gemini-3-flash-preview"

FALLBACK_MODEL == "gemini-2.5-flash-lite"

MAX_RETRIES == 3

\* The models a caller passes: the two constants and a model chosen by the
\* caller's configuration.
Models == {TRANSLATION_MODEL, FALLBACK_MODEL, "gemini-2.5-pro"}

\* The prompts of the three callers: document analysis, section analysis,
\* batch translation.
Prompts == {"analyze document", "analyze section", "translate batch"}

\* data.text || '' of a successful response.
ResponseTexts == {"", "[]", "[\"a\"]"}

RECURSIVE Pow2(_)
Pow2(n) == IF n = 0 THEN 1 ELSE 2 * Pow2(n - 1)

\* Math.pow(2, attempt - 1) * 1000
delayMs(attempt) == Pow2(attempt - 1) * 1000

\* attemptAPICall(model, contents, config) has been called and is pending.
Attempt(model) == [kind |-> "attempt", model |-> model, outcome |-> "pending",
                   text |-> undefined]

\* The last entry of the log, settled.
Settle(log, outcome, text) ==
  [log EXCEPT ![Len(log)] = [@ EXCEPT !.outcome = outcome, !.text = text]]

InitRetry ==
  /\ settings = [translateHeaders |-> TRUE, translateFootnotes |-> TRUE]
  /\ config = BuildConfig(settings, MaxBatchSize, MaxCharsPerBatch, MaxConcurrent)
  /\ numDocs = 0
  /\ docIdx = 0
  /\ completed = 0
  /\ tdStatus = << >>
  /\ isTranslating = FALSE
  /\ aborted = FALSE
  /\ pc = "attemptAPICall"
  /\ PipeInit
  /\ call \in [fn : {"callGeminiAPI"}, model : Models, contents : Prompts]
  /\ ret = [fn |-> "callGeminiAPI", attempt |-> 1, result |-> undefined,
            log |-> <<Attempt(call.model)>>]

\* An attempt resolved: callGeminiAPI returns its text.
AttemptSucceeded ==
  /\ pc \in {"attemptAPICall", "fallback"}
  /\ \E text \in ResponseTexts :
       ret' = [ret EXCEPT !.log = Settle(@, "ok", text), !.result = text]
  /\ pc' = "api_returned"
  /\ UNCHANGED <<call, callerVars, signalVars, pipeVars>>

\* What follows the loop when every attempt with the requested model failed.
\* Mutant: the fallback model is tried whatever the requested model was.
AfterRetries_AlwaysFallsBack(log) ==
  /\ ret' = [ret EXCEPT !.log = Append(log, Attempt(FALLBACK_MODEL))]
  /\ pc' = "fallback"

\* What follows the loop when every attempt with the requested model failed.
AfterRetries(log) ==
  IF call.model # FALLBACK_MODEL
  THEN /\ ret' = [ret EXCEPT !.log = Append(log, Attempt(FALLBACK_MODEL))]
       /\ pc' = "fallback"
  ELSE /\ ret' = [ret EXCEPT !.log = log]
       /\ pc' = "api_threw"

\* An attempt of the loop rejected: wait and retry, or leave the loop.
AttemptFailed ==
  /\ pc = "attemptAPICall"
  /\ LET log == Settle(ret.log, "failed", undefined) IN
       IF ret.attempt < MAX_RETRIES
       THEN /\ ret' = [ret EXCEPT !.log =
                         Append(log, [kind |-> "wait", ms |-> delayMs(ret.attempt)])]
            /\ pc' = "setTimeout"
       ELSE AfterRetries(log)
  /\ UNCHANGED <<call, callerVars, signalVars, pipeVars>>

\* The back-off timer fired: next iteration of the loop.
TimerFired ==
  /\ pc = "setTimeout"
  /\ ret' = [ret EXCEPT !.attempt = @ + 1,
                        !.log = Append(@, Attempt(call.model))]
  /\ pc' = "attemptAPICall"
  /\ UNCHANGED <<call, callerVars, signalVars, pipeVars>>

\* The attempt with the fallback model rejected: callGeminiAPI throws.
FallbackFailed ==
  /\ pc = "fallback"
  /\ ret' = [ret EXCEPT !.log = Settle(@, "failed", undefined)]
  /\ pc' = "api_threw"
  /\ UNCHANGED <<call, callerVars, signalVars, pipeVars>>

NextRetry == AttemptSucceeded \/ AttemptFailed \/ TimerFired \/ FallbackFailed

\* Every request to /api/translate settles and every timer fires.
SpecRetry == InitRetry /\ [][NextRetry]_vars /\ WF_vars(NextRetry)

\* The attempts of the log, in order.
AttemptsOf(log) == SelectSeq(log, LAMBDA ev : ev.kind = "attempt")

\* The longest course of one call: three attempts with the requested model
\* separated by waits of 1s and 2s, then one attempt with the fallback model.
FullCourse(model) ==
  <<[kind |-> "attempt", model |-> model], [kind |-> "wait", ms |-> 1000],
    [kind |-> "attempt", model |-> model], [kind |-> "wait", ms |-> 2000],
    [kind |-> "attempt", model |-> model],
    [kind |-> "attempt", model |-> FALLBACK_MODEL]>>

\* The event without the outcome of the attempt.
Shape(ev) ==
  IF ev.kind = "attempt" THEN [kind |-> "attempt", model |-> ev.model] ELSE ev

C28_AttemptsBounded ==
  call.fn = "callGeminiAPI" =>
    LET log == ret.log
        attempts == AttemptsOf(log)
    IN /\ Len(attempts) <= 4
       /\ Len(log) <= 6
       /\ \A k \in DOMAIN log : Shape(log[k]) = FullCourse(call.model)[k]
       /\ Len(log) = 6 => call.model # FALLBACK_MODEL
       /\ \A k \in DOMAIN log :
            k < Len(log) => /\ log[k].kind = "attempt" => log[k].outcome = "failed"
       /\ pc = "api_returned" =>
            /\ log[Len(log)].kind = "attempt"
            /\ log[Len(log)].outcome = "ok"
            /\ ret.result = log[Len(log)].text
       /\ pc = "api_threw" =>
            /\ \A k \in DOMAIN attempts : attempts[k].outcome = "failed"
            /\ Len(attempts) = IF call.model = FALLBACK_MODEL THEN 3 ELSE 4
       /\ pc \notin {"api_returned", "api_threw"} =>
            log[Len(log)] \in {Attempt(call.model), Attempt(FALLBACK_MODEL)}
              \/ log[Len(log)].kind = "wait"

C28_Terminated == pc \in {"api_returned", "api_threw"}

\* C28: callGeminiAPI makes at most 3 attempts with the requested model,
\* waiting 1000 ms then 2000 ms between them, then at most 1 attempt with the
\* fallback model, made only after 3 failures and only when the requested
\* model is not the fallback model; it returns the text of the first
\* successful attempt and attempts nothing after it; it throws only when
\* every attempt failed; and every call ends, after at most 4 attempts.
C28_RetryThenFallback == []C28_AttemptsBounded /\ <>C28_Terminated

\* C28 witness: the fallback attempt succeeds after three failures and two
\* waits.
C28_Witness ==
  /\ pc = "api_returned"
  /\ call.fn = "callGeminiAPI"
  /\ Len(ret.log) = 6
  /\ ret.log[6].model = FALLBACK_MODEL
  /\ ret.log[6].outcome = "ok"
  /\ ret.result = "[\"a\"]"

\* ---------------------------------------------------------------------
\* detectLegalSections: one pass over the units of a document (part_003).
\* ---------------------------------------------------------------------

MaxSectionUnits == 3

UpperCase ==
  [a |-> "A", b |-> "B", c |-> "C", d |-> "D", e |-> "E", f |-> "F", g |-> "G",
   h |-> "H", i |-> "I", j |-> "J", k |-> "K", l |-> "L", m |-> "M", n |-> "N",
   o |-> "O", p |-> "P", q |-> "Q", r |-> "R", s |-> "S", t |-> "T", u |-> "U",
   v |-> "V", w |-> "W", x |-> "X", y |-> "Y", z |-> "Z"]

\* str.toUpperCase()
RECURSIVE toUpperCase(_)
toUpperCase(str) ==
  IF Len(str) = 0 THEN ""
  ELSE LET c == SubSeq(str, 1, 1)
       IN (IF c \in DOMAIN UpperCase THEN UpperCase[c] ELSE c)
            \o toUpperCase(SubSeq(str, 2, Len(str)))

\* str.trim()
RECURSIVE trim(_)
trim(str) ==
  IF Len(str) = 0 THEN ""
  ELSE IF SubSeq(str, 1, 1) = " " THEN trim(SubSeq(str, 2, Len(str)))
  ELSE IF SubSeq(str, Len(str), Len(str)) = " "
       THEN trim(SubSeq(str, 1, Len(str) - 1))
  ELSE str

\* The character at position k (1-based), "" past the end.
CharAt(str, k) == IF k \in 1..Len(str) THEN SubSeq(str, k, k) ELSE ""

\* The length of the longest run of characters of the class starting at
\* position k.
RECURSIVE RunLen(_, _, _)
RunLen(str, k, class) ==
  IF CharAt(str, k) \in class THEN 1 + RunLen(str, k + 1, class) ELSE 0

DigitChars == {"0", "1", "2", "3", "4", "5", "6", "7", "8", "9"}

RomanChars == {"i", "v", "x", "l", "c", "d", "m"}

StartsWith(str, prefix) == SubSeq(str, 1, Min(Len(prefix), Len(str))) = prefix

\* word\s+[class]+ at the start of the string.
WordThen(str, word, class) ==
  /\ StartsWith(str, word)
  /\ LET spaces == RunLen(str, Len(word) + 1, {" "})
     IN /\ spaces >= 1
        /\ CharAt(str, Len(word) + spaces + 1) \in class

\* numberedPattern.test(text): the pattern is anchored at the start and
\* case-insensitive, so it is tested on the lower-cased text.
numberedPattern(text) ==
  LET lower == toLowerCase(text)
      digits == RunLen(lower, 1, DigitChars)
      romans == RunLen(lower, 2, RomanChars)
  IN \/ digits >= 1 /\ CharAt(lower, digits + 1) \in {".", ")"}
     \/ /\ CharAt(lower, 1) = "("
        /\ CharAt(lower, 2) \in DOMAIN UpperCase
        /\ CharAt(lower, 3) = ")"
     \/ CharAt(lower, 1) = "(" /\ romans >= 1 /\ CharAt(lower, romans + 2) = ")"
     \/ WordThen(lower, "article", DigitChars)
     \/ WordThen(lower, "section", DigitChars)
     \/ WordThen(lower, "article", RomanChars)

headingStyles == {"Heading1", "Heading2", "Heading3", "Title", "Subtitle"}

isHeading(segment) ==
  /\ segment.styleInfo \notin {undefined, ""}
  /\ \E s \in headingStyles :
       Occurs(toLowerCase(s), toLowerCase(segment.styleInfo))

isNumberedSection(segment) == numberedPattern(trim(segment.text))

isAllCaps(segment) ==
  /\ Len(trim(segment.text)) > 3
  /\ trim(segment.text) = toUpperCase(trim(segment.text))
  /\ \E k \in 1..Len(segment.text) : CharAt(segment.text, k) \in DOMAIN LowerCase

\* The segment starts a new section.
StartsSection(segment) ==
  isHeading(segment) \/ isNumberedSection(segment) \/ isAllCaps(segment)

NoSection == [id |-> undefined]

\* The sections pushed so far, with the open section's endIndex set to the
\* given value and pushed when there is one.
PushSection(st, endIndex) ==
  IF st.currentSection # NoSection /\ Len(st.currentSection.segments) > 0
  THEN Append(st.sections, [st.currentSection EXCEPT !.endIndex = endIndex])
  ELSE st.sections

SectionLoopInit == [sections |-> << >>, currentSection |-> NoSection, sectionId |-> 0]

\* One iteration of the loop: segment is segments[index] (0-based).
SectionLoopStep(st, segment, index) ==
  IF StartsSection(segment)
  THEN [sections |-> PushSection(st, index - 1),
        currentSection |->
          [id |-> st.sectionId, title |-> trim(segment.text),
           type |-> classifyLegalSection(trim(segment.text)),
           segments |-> <<segment>>, startIndex |-> index, endIndex |-> index],
        sectionId |-> st.sectionId + 1]
  ELSE IF st.currentSection # NoSection
  THEN [st EXCEPT !.currentSection.segments = Append(@, segment)]
  ELSE [sections |-> st.sections,
        currentSection |->
          [id |-> st.sectionId, title |-> "Preamble", type |-> "preamble",
           segments |-> <<segment>>, startIndex |-> index, endIndex |-> index],
        sectionId |-> st.sectionId + 1]

RECURSIVE SectionLoop(_, _, _)
SectionLoop(st, segs, index) ==
  IF index >= Len(segs) THEN st
  ELSE SectionLoop(SectionLoopStep(st, segs[index + 1], index), segs,
                   index + 1)

\* Mutant: the section open at the end of the loop is not pushed.
detectLegalSections_DropsLast(segs) ==
  SectionLoop(SectionLoopInit, segs, 0).sections

detectLegalSections(segs) ==
  PushSection(SectionLoop(SectionLoopInit, segs, 0), Len(segs) - 1)

\* The style and text of the paragraphs of the documents: plain paragraphs,
\* headings by style, numbered clauses, capitalised headings, and texts that
\* come close to each test without passing it.
UnitKinds ==
  {[styleInfo |-> undefined, text |-> "The parties agree."],
   [styleInfo |-> "Normal", text |-> "2024"],
   [styleInfo |-> undefined, text |-> "NDA"],
   [styleInfo |-> "Heading1", text |-> "Preamble"],
   [styleInfo |-> "SubtitleChar", text |-> "payment terms"],
   [styleInfo |-> undefined, text |-> "1. Definitions"],
   [styleInfo |-> undefined, text |-> " Article 5 - CONFIDENTIALITY"],
   [styleInfo |-> undefined, text |-> "(iv) notice"],
   [styleInfo |-> "Normal", text |-> "WHEREAS "]}

\* The segments of a document with the given paragraphs; the id of a
\* segment is its index.
StyledSegments(units) ==
  [k \in DOMAIN units |->
     [id |-> k - 1, text |-> units[k].text, styleInfo |-> units[k].styleInfo]]

SegmentLists ==
  UNION {{StyledSegments(units) : units \in [1..n -> UnitKinds]} :
           n \in 0..MaxSectionUnits}

InitSections ==
  /\ settings = [translateHeaders |-> TRUE, translateFootnotes |-> TRUE]
  /\ config = BuildConfig(settings, MaxBatchSize, MaxCharsPerBatch, MaxConcurrent)
  /\ numDocs = 0
  /\ docIdx = 0
  /\ completed = 0
  /\ tdStatus = << >>
  /\ isTranslating = FALSE
  /\ aborted = FALSE
  /\ pc = "parseDocx"
  /\ PipeInit
  /\ call \in [fn : {"detectLegalSections"}, segments : SegmentLists]
  /\ ret = NoCall

DetectSections ==
  /\ pc = "parseDocx"
  /\ call.fn = "detectLegalSections"
  /\ ret' = [fn |-> call.fn, sections |-> detectLegalSections(call.segments)]
  /\ pc' = "sections_detected"
  /\ UNCHANGED <<call, callerVars, signalVars, pipeVars>>

NextSections == DetectSections

SpecSections == InitSections /\ [][NextSections]_vars

\* The ids of the members of a section, in the section's order.
MemberIds(section) == [k \in DOMAIN section.segments |-> section.segments[k].id]

\* A section opened for a unit that does not itself start a section.
Synthetic(section) ==
  /\ section.title = "Preamble"
  /\ section.type = "preamble"
  /\ ~StartsSection(section.segments[1])

\* C22: for every non-empty unit sequence, every unit is a member of
\* exactly one section; sections and their members keep document order; the
\* ranges [startIndex, endIndex] are contiguous, do not overlap and cover
\* 0..n-1; each section has endIndex - startIndex + 1 members; and a
\* synthetic Preamble section is opened exactly when the first unit does not
\* itself start a section.
C22_SectionsPartitionUnits ==
  (pc = "sections_detected" /\ call.fn = "detectLegalSections"
     /\ Len(call.segments) > 0) =>
    LET segs == call.segments
        n == Len(segs)
        secs == ret.sections
    IN /\ \A u \in 0..(n - 1) :
            /\ Cardinality({s \in DOMAIN secs :
                              \E k \in DOMAIN secs[s].segments :
                                secs[s].segments[k] = segs[u + 1]}) = 1
            /\ \A s \in DOMAIN secs :
                 Cardinality({k \in DOMAIN secs[s].segments :
                                secs[s].segments[k].id = u}) <= 1
       /\ \A s \in DOMAIN secs :
            /\ secs[s].startIndex <= secs[s].endIndex
            /\ Len(secs[s].segments) = secs[s].endIndex - secs[s].startIndex + 1
            /\ MemberIds(secs[s]) =
                 [k \in 1..Len(secs[s].segments) |-> secs[s].startIndex + k - 1]
       /\ Len(secs) >= 1
       /\ secs[1].startIndex = 0
       /\ secs[Len(secs)].endIndex = n - 1
       /\ \A s \in 1..(Len(secs) - 1) :
            secs[s + 1].startIndex = secs[s].endIndex + 1
       /\ (\E s \in DOMAIN secs : Synthetic(secs[s])) <=> ~StartsSection(segs[1])
       /\ \A s \in DOMAIN secs : Synthetic(secs[s]) => s = 1
       /\ \A s \in DOMAIN secs :
            ~Synthetic(secs[s]) =>
              /\ StartsSection(secs[s].segments[1])
              /\ secs[s].title = trim(secs[s].segments[1].text)

\* C22 witness: a document whose first unit starts no section gets a
\* synthetic Preamble section of two units followed by a detected section.
C22_Witness ==
  /\ pc = "sections_detected"
  /\ call.fn = "detectLegalSections"
  /\ Len(call.segments) = 3
  /\ Len(ret.sections) = 2
  /\ Synthetic(ret.sections[1])
  /\ Len(ret.sections[1].segments) = 2
  /\ ret.sections[2].startIndex = 2
  /\ ret.sections[2].endIndex = 2
  /\ ret.sections[2].type = "confidentiality"

\* ---------------------------------------------------------------------
\* parseDocx and rebuildDocx on a whole container: the parts of the zip, the
\* parsed trees, the injection of the mapping, the layout repair of the main
\* body and the clean-up of the style and numbering definitions.
\* ---------------------------------------------------------------------

MaxBodyParas == 3

\* A w:p element: pid is its identity (its position in the part when the
\* container was loaded), runs the texts of its w:t elements in order.
Paragraph(pid, runs, inTable) == [pid |-> pid, runs |-> runs, inTable |-> inTable]

\* The paragraphs of the main body: without runs, with white space only,
\* ending a sentence, continuing (two runs), starting a numbered clause.
BodyRuns == {<< >>, <<" ">>, <<"a.">>, <<"b", "c">>, <<"(1) d">>, <<"1.2 e">>}

BodyTrees ==
  UNION {{[k \in 1..n |-> Paragraph(k, f[k], FALSE)] : f \in [1..n -> BodyRuns]} :
           n \in 0..MaxBodyParas}

\* A header part: an empty paragraph, then a paragraph with text.
HeaderTree == <<Paragraph(1, << >>, FALSE), Paragraph(2, <<"h">>, FALSE)>>

\* A footer part that holds one empty paragraph.
FooterTree == <<Paragraph(1, << >>, FALSE)>>

FootnotesTree == <<Paragraph(1, <<"v">>, FALSE)>>

\* The elements of word/styles.xml and word/numbering.xml that matter to
\* cleanupStyles, and one it leaves alone.
StylesDoc == {"pageBreakBefore", "keepNext", "basedOn"}

NumberingDoc == {"keepLines", "numFmt"}

\* A part rebuildDocx has no reason to touch.
SettingsDoc == {"zoom"}

\* The containers: the files of the zip by name.
Containers ==
  UNION {{[body |-> b, settings |-> SettingsDoc],
          [body |-> b, header |-> HeaderTree, styles |-> StylesDoc,
           settings |-> SettingsDoc],
          [body |-> b, header |-> HeaderTree, footer |-> FooterTree,
           footnotes |-> FootnotesTree, styles |-> StylesDoc,
           numbering |-> NumberingDoc, settings |-> SettingsDoc]} :
           b \in BodyTrees}

\* extractParagraphText
extractParagraphText(paragraph) == Concat(paragraph.runs)

\* extractParagraphSegments: one segment per paragraph whose text is not
\* blank, with the index of the paragraph among the w:p elements of the part.
extractParagraphSegments(doc, xmlPath, location) ==
  LET kept == SelectSeq([k \in DOMAIN doc |-> k],
                        LAMBDA k : Len(trim(extractParagraphText(doc[k]))) # 0)
  IN [j \in DOMAIN kept |->
        NewSegment(<<xmlPath, kept[j] - 1>>, extractParagraphText(doc[kept[j]]),
                   actualLocation([part |-> location,
                                   inTable |-> doc[kept[j]].inTable]))
          @@ [xmlPath |-> xmlPath, paragraphIndex |-> kept[j] - 1]]

\* parseDocx on a container: the trees of the parts it scans and the
\* segments of those parts, part by part.
parseDocxContainer(container, st) ==
  LET paths == SelectSeq(PartOrder,
                         LAMBDA p : p \in filesToParse(st) /\ p \in DOMAIN container)
  IN [zipInstance |-> container,
      xmlDocuments |-> [p \in Range(paths) |-> container[p]],
      segments |-> Flatten([k \in DOMAIN paths |->
                              extractParagraphSegments(container[paths[k]],
                                                       paths[k], paths[k])])]

\* What rebuildDocx did, in order.
Event(ev, part, id, pid, text) ==
  [ev |-> ev, part |-> part, id |-> id, pid |-> pid, text |-> text]

\* The keys of segmentsByPath, in insertion order.
RECURSIVE Paths(_, _)
Paths(segs, seen) ==
  IF segs = << >> THEN << >>
  ELSE IF Head(segs).xmlPath \in seen THEN Paths(Tail(segs), seen)
  ELSE <<Head(segs).xmlPath>> \o Paths(Tail(segs), seen \cup {Head(segs).xmlPath})

\* Mutant: a paragraph index past the end addresses the last paragraph.
InjectSegment_ClampsIndex(st, segment, trans) ==
  IF segment.id \notin DOMAIN trans \/ Len(st.docs[segment.xmlPath]) = 0 THEN st
  ELSE LET doc == st.docs[segment.xmlPath]
           idx == Min(segment.paragraphIndex + 1, Len(doc))
       IN [st EXCEPT
             !.docs[segment.xmlPath][idx].runs =
               InjectTranslation(@, trans[segment.id], segment.location),
             !.log = Append(@, Event("inject", segment.xmlPath, segment.id,
                                     doc[idx].pid, trans[segment.id]))]

\* The body of the loop over the segments of a part.
InjectSegment(st, segment, trans) ==
  IF segment.id \notin DOMAIN trans THEN st
  ELSE LET doc == st.docs[segment.xmlPath]
           idx == segment.paragraphIndex + 1
       IN IF idx \notin DOMAIN doc
          THEN [st EXCEPT !.log = Append(@, Event("skip", segment.xmlPath,
                                                    segment.id, undefined, undefined))]
          ELSE [st EXCEPT
                  !.docs[segment.xmlPath][idx].runs =
                    InjectTranslation(@, trans[segment.id], segment.location),
                  !.log = Append(@, Event("inject", segment.xmlPath, segment.id,
                                          doc[idx].pid, trans[segment.id]))]

RECURSIVE InjectSegments(_, _, _)
InjectSegments(st, segs, trans) ==
  IF segs = << >> THEN st
  ELSE InjectSegments(InjectSegment(st, Head(segs), trans), Tail(segs), trans)

\* One iteration of the loop over segmentsByPath: inject, serialize, write.
InjectPath(st, xmlPath, segs, trans) ==
  IF xmlPath \notin DOMAIN st.docs THEN st
  ELSE LET st1 == InjectSegments(st, SelectSeq(segs, LAMBDA s : s.xmlPath = xmlPath),
                                 trans)
       IN [st1 EXCEPT !.zip[xmlPath] = st1.docs[xmlPath],
                      !.log = Append(@, Event("write", xmlPath, undefined,
                                              undefined, undefined))]

RECURSIVE InjectPaths(_, _, _, _)
InjectPaths(st, paths, segs, trans) ==
  IF paths = << >> THEN st
  ELSE InjectPaths(InjectPath(st, Head(paths), segs, trans), Tail(paths), segs, trans)

\* Mutant: every parsed tree is serialized and written, with or without
\* segments.
PathsToWrite_AllDocuments(parsedDocx) ==
  SelectSeq(ContainerParts, LAMBDA p : p \in DOMAIN parsedDocx.xmlDocuments)

\* The parts the loop visits.
PathsToWrite(parsedDocx) == Paths(parsedDocx.segments, {})

\* Step 9 of cleanupPageBreaks: some w:t of the paragraph has text that is
\* not blank.
hasContent(para) ==
  \E k \in DOMAIN para.runs : Len(trim(para.runs[k])) > 0

\* Mutant: two consecutive empty paragraphs are kept.
excessive_AllowsTwo(consecutiveEmptyCount) == consecutiveEmptyCount > 2

\* Step 9: an empty paragraph is removed when it is not the first of its run.
excessive(consecutiveEmptyCount) == consecutiveEmptyCount > 1

\* Step 9: the paragraphs left when emptyParasToRemove have been removed.
RECURSIVE removeEmptyParas(_, _)
removeEmptyParas(paragraphs, consecutiveEmptyCount) ==
  IF paragraphs = << >> THEN << >>
  ELSE LET para == Head(paragraphs)
       IN IF ~hasContent(para)
          THEN (IF excessive(consecutiveEmptyCount + 1) THEN << >> ELSE <<para>>)
                 \o removeEmptyParas(Tail(paragraphs), consecutiveEmptyCount + 1)
          ELSE <<para>> \o removeEmptyParas(Tail(paragraphs), 0)

\* /[.!?;:]$/
endsWithSentence(str) == CharAt(str, Len(str)) \in {".", "!", "?", ";", ":"}

\* The position after the longest match of (\d+\.)* from position pos.
RECURSIVE NumberGroups(_, _)
NumberGroups(str, pos) ==
  LET digits == RunLen(str, pos, DigitChars)
  IN IF digits >= 1 /\ CharAt(str, pos + digits) = "."
     THEN NumberGroups(str, pos + digits + 1)
     ELSE pos

\* /^(\d+\.)+\d*\s/
startsWithNumber(str) ==
  LET pos == NumberGroups(str, 1)
  IN pos > 1 /\ CharAt(str, pos + RunLen(str, pos, DigitChars)) = " "

\* /^[<bullet>\-<dashes>]\s/: of the four markers the hyphen is the one the
\* texts of the model can hold.
startsWithListMarker(str) == CharAt(str, 1) = "-" /\ CharAt(str, 2) = " "

\* /^\(\d+\)/
startsWithParenNumber(str) ==
  /\ CharAt(str, 1) = "("
  /\ RunLen(str, 2, DigitChars) >= 1
  /\ CharAt(str, 2 + RunLen(str, 2, DigitChars)) = ")"

\* length > 3 and three capital letters at the start.
startsWithAllCaps(str) == Len(str) > 3 /\ RunLen(str, 1, DOMAIN LowerCase) >= 3

shouldMerge(currentText, nextText) ==
  /\ ~endsWithSentence(trim(currentText))
  /\ ~startsWithNumber(trim(nextText))
  /\ ~startsWithListMarker(trim(nextText))
  /\ ~startsWithParenNumber(trim(nextText))
  /\ ~startsWithAllCaps(trim(nextText))

\* The loop of mergeContinuingParagraphs from index (0-based): after a merge
\* the same index is visited again.
RECURSIVE MergeFrom(_, _)
MergeFrom(paragraphs, index) ==
  IF index >= Len(paragraphs) - 1 THEN paragraphs
  ELSE LET currentPara == paragraphs[index + 1]
           nextPara == paragraphs[index + 2]
           currentText == extractParagraphText(currentPara)
           nextText == extractParagraphText(nextPara)
       IN IF Len(trim(currentText)) = 0 \/ Len(trim(nextText)) = 0
          THEN MergeFrom(paragraphs, index + 1)
          ELSE IF shouldMerge(currentText, nextText)
          THEN MergeFrom(
                 SubSeq(paragraphs, 1, index)
                   \o <<[currentPara EXCEPT !.runs =
                           @ \o (IF CharAt(currentText, Len(currentText)) # " "
                                 THEN <<" ">> ELSE << >>)
                             \o nextPara.runs]>>
                   \o SubSeq(paragraphs, index + 3, Len(paragraphs)),
                 index)
          ELSE MergeFrom(paragraphs, index + 1)

mergeContinuingParagraphs(paragraphs) == MergeFrom(paragraphs, 0)

\* cleanupPageBreaks on the paragraphs of the main body.  Steps 1 to 8
\* remove or change properties of paragraphs, runs and sections; they never
\* add, remove or reorder paragraphs and never change a text, and the
\* paragraphs of the model carry no such properties.
cleanupPageBreaks(paragraphs) ==
  mergeContinuingParagraphs(removeEmptyParas(paragraphs, 0))

\* cleanupStyles: the three kinds of element it removes.
cleanupStyles(doc) == doc \ {"pageBreakBefore", "keepNext", "keepLines"}

\* The main document is cleaned, serialized and written.
CleanMain(st) ==
  IF "body" \in DOMAIN st.docs
  THEN LET cleaned == cleanupPageBreaks(st.docs.body)
       IN [st EXCEPT !.docs.body = cleaned, !.zip.body = cleaned,
                     !.log = @ \o <<Event("cleanupPageBreaks", "body", undefined,
                                          undefined, undefined),
                                    Event("write", "body", undefined, undefined,
                                          undefined)>>]
  ELSE st

\* word/styles.xml or word/numbering.xml is cleaned and written if the zip
\* has it.
CleanDefinitions(st, part) ==
  IF part \in DOMAIN st.zip
  THEN [st EXCEPT !.zip[part] = cleanupStyles(@),
                  !.log = @ \o <<Event("cleanupStyles", part, undefined, undefined,
                                       undefined),
                                 Event("write", part, undefined, undefined,
                                       undefined)>>]
  ELSE st

\* The state rebuildDocx starts from.
RebuildStart(parsedDocx) ==
  [zip |-> parsedDocx.zipInstance, docs |-> parsedDocx.xmlDocuments, log |-> << >>]

\* The state when the loop over segmentsByPath has ended.
Injected(parsedDocx, trans) ==
  InjectPaths(RebuildStart(parsedDocx), PathsToWrite(parsedDocx),
              parsedDocx.segments, trans)

\* Mutant: the main document is cleaned before the translations are
\* injected.
rebuildDocx_CleansFirst(parsedDocx, trans) ==
  CleanDefinitions(
    CleanDefinitions(
      InjectPaths(CleanMain(RebuildStart(parsedDocx)), PathsToWrite(parsedDocx),
                  parsedDocx.segments, trans),
      "styles"),
    "numbering")

rebuildDocx(parsedDocx, trans) ==
  CleanDefinitions(CleanDefinitions(CleanMain(Injected(parsedDocx, trans)), "styles"),
                   "numbering")

\* The parsed document as rebuildDocx receives it: the main tree has lost
\* its last `removed` paragraphs since the segments were extracted.
AtRebuild(parsedDocx, removed) ==
  IF "body" \in DOMAIN parsedDocx.xmlDocuments
  THEN [parsedDocx EXCEPT
          !.xmlDocuments.body = SubSeq(@, 1, Max(Len(@) - removed, 0))]
  ELSE parsedDocx

\* The mappings handed to rebuildDocx: every eligible unit translated, every
\* batch failed (original texts), every translation blank, and a mapping with
\* entries for the units at even positions only.
MappingKinds == {"translated", "failed", "blank", "partial"}

Mapping(kind, allSegs, eligible) ==
  LET entries == IF kind = "partial"
                 THEN {k \in DOMAIN allSegs : k % 2 = 0}
                 ELSE DOMAIN allSegs
  IN [id \in {allSegs[k].id : k \in entries} |->
        LET seg == allSegs[CHOOSE k \in DOMAIN allSegs : allSegs[k].id = id]
        IN IF id \notin Range(eligible) \/ kind = "failed" THEN seg.text
           ELSE IF kind = "blank" THEN ""
           ELSE Translate(seg.text)]

InitContainerWith(removals) ==
  /\ settings \in Settings
  /\ config = BuildConfig(settings, MaxBatchSize, MaxCharsPerBatch, MaxConcurrent)
  /\ numDocs = 0
  /\ docIdx = 0
  /\ completed = 0
  /\ tdStatus = << >>
  /\ isTranslating = FALSE
  /\ aborted = FALSE
  /\ pc = "parseDocx"
  /\ PipeInit
  /\ call \in [fn : {"parseDocx"}, container : Containers, removed : removals]
  /\ ret = NoCall

\* The trees rebuildDocx receives are the trees parseDocx built.
InitContainer == InitContainerWith({0})

\* parseDocx resolved; the pipeline filtered the segments.
ParseContainer ==
  /\ pc = "parseDocx"
  /\ call.fn = "parseDocx"
  /\ allSegments' = parseDocxContainer(call.container, settings).segments
  /\ segments' = Ids(filterSegmentsBySettings(allSegments', config))
  /\ pc' = "runTranslationPipeline"
  /\ UNCHANGED <<fnVars, callerVars, signalVars, batches, i, inflight, translations,
                 processedSegments, errors, progressLog, result, dispatchLog,
                 rebuildArgs>>

\* The translation phase ended with some mapping.
MapTranslations ==
  /\ pc = "runTranslationPipeline"
  /\ call.fn = "parseDocx"
  /\ \E kind \in MappingKinds : translations' = Mapping(kind, allSegments, segments)
  /\ pc' = "rebuildDocx"
  /\ UNCHANGED <<fnVars, callerVars, signalVars, allSegments, segments, batches, i,
                 inflight, processedSegments, errors, progressLog, result,
                 dispatchLog, rebuildArgs>>

\* rebuildDocx ran to its end.
RebuildContainer ==
  /\ pc = "rebuildDocx"
  /\ call.fn = "parseDocx"
  /\ ret' = [fn |-> "rebuildDocx"] @@
            rebuildDocx(AtRebuild(parseDocxContainer(call.container, settings),
                                  call.removed),
                        translations)
  /\ rebuildArgs' = Append(rebuildArgs, translations)
  /\ pc' = "rebuilt"
  /\ UNCHANGED <<call, callerVars, signalVars, allSegments, segments, batches, i,
                 inflight, translations, processedSegments, errors, progressLog,
                 result, dispatchLog>>

NextContainer == ParseContainer \/ MapTranslations \/ RebuildContainer

SpecContainer == InitContainer /\ [][NextContainer]_vars

\* rebuildDocx called with a parsed document whose main tree has lost
\* paragraphs since parsing.
InitStale == InitContainerWith({1, 2})

SpecStale == InitStale /\ [][NextContainer]_vars

\* The events of the log of one kind.
EventsOf(ev) == {k \in DOMAIN ret.log : ret.log[k].ev = ev}

\* The parts rebuildDocx wrote.
Written == {ret.log[k].part : k \in EventsOf("write")}

Rebuilt == pc = "rebuilt" /\ ret.fn = "rebuildDocx"

\* C23: with headers excluded, on a container with a body and a header
\* part, no unit of the header part is sent to translation, and the header
\* part of the output is present and equal to the source: rebuildDocx never
\* writes it.
C23_ExcludedHeaderUntouched ==
  (call.fn = "parseDocx" /\ "header" \in DOMAIN call.container
     /\ ~config.translateHeaders) =>
    /\ \A id \in Range(segments) : id[1] # "header"
    /\ \A k \in DOMAIN allSegments : allSegments[k].xmlPath # "header"
    /\ Rebuilt =>
         /\ "header" \in DOMAIN ret.zip
         /\ ret.zip.header = call.container.header
         /\ "header" \notin Written

\* C23 witness: a container with text in its body and in its header was
\* rebuilt with headers excluded, and its body was translated.
C23_Witness ==
  /\ Rebuilt
  /\ ~config.translateHeaders
  /\ "header" \in DOMAIN call.container
  /\ \E k \in DOMAIN call.container.header : hasContent(call.container.header[k])
  /\ \E k \in EventsOf("inject") : ret.log[k].part = "body"
  /\ ret.zip.body # call.container.body

\* The parts with at least one parsed unit.
PartsWithUnits == {allSegments[k].xmlPath : k \in DOMAIN allSegments}

\* C24: rebuildDocx writes only parts with at least one parsed unit, the
\* main body, and the style and numbering definitions when present; every
\* other part of the container is the same before and after, whatever the
\* mapping.
C24_UntouchedPartsKept ==
  Rebuilt =>
    LET allowed == PartsWithUnits \cup {"body"}
                     \cup ({"styles", "numbering"} \cap DOMAIN call.container)
    IN /\ Written \subseteq allowed
       /\ DOMAIN ret.zip = DOMAIN call.container
       /\ \A part \in DOMAIN call.container \ allowed :
            ret.zip[part] = call.container[part]

\* C24 witness: a footer part was parsed and has no unit, and it and the
\* settings part are as they were while other parts were written.
C24_Witness ==
  /\ Rebuilt
  /\ settings.translateFootnotes
  /\ "footer" \in DOMAIN call.container
  /\ "footer" \notin PartsWithUnits
  /\ ret.zip.footer = call.container.footer
  /\ ret.zip.settings = call.container.settings
  /\ {"body", "header", "styles", "numbering"} \subseteq Written
  /\ ret.zip.styles # call.container.styles

\* C25: cleanupPageBreaks runs exactly once per rebuild, on the main body
\* only, after every injection into the main body; and each unit is injected
\* into the element it was extracted from: the element at its
\* paragraphIndex when it is injected has the identity of the element at
\* that index when the container was parsed.
C25_RepairOnceAfterInjection ==
  Rebuilt =>
    /\ Cardinality(EventsOf("cleanupPageBreaks")) = 1
    /\ \A c \in EventsOf("cleanupPageBreaks") :
         /\ ret.log[c].part = "body"
         /\ \A k \in EventsOf("inject") : ret.log[k].part = "body" => k < c
    /\ \A k \in EventsOf("inject") :
         ret.log[k].pid = call.container[ret.log[k].id[1]][ret.log[k].id[2] + 1].pid
    /\ \A k \in DOMAIN allSegments :
         allSegments[k].id \in DOMAIN translations =>
           \E e \in EventsOf("inject") : ret.log[e].id = allSegments[k].id

\* C25 witness: the repair removed a paragraph that precedes an injected
\* unit, so that the unit's index no longer addresses its element afterwards.
C25_Witness ==
  /\ Rebuilt
  /\ Len(ret.docs.body) < Len(call.container.body)
  /\ \E k \in EventsOf("inject") :
       /\ ret.log[k].part = "body"
       /\ LET idx == ret.log[k].id[2] + 1
          IN idx \notin DOMAIN ret.docs.body \/ ret.docs.body[idx].pid # ret.log[k].pid

\* The unit's index addresses an element of its part's tree as rebuildDocx
\* receives it.
Addressable(seg) ==
  seg.paragraphIndex + 1 \in
    DOMAIN AtRebuild(parseDocxContainer(call.container, settings),
                     call.removed).xmlDocuments[seg.xmlPath]

\* C26: a unit whose paragraphIndex addresses no element at rebuild time is
\* skipped without an error: the unit is not injected anywhere, every other
\* unit with a mapping entry, of the same part and of other parts, is
\* injected once, with its mapped text, into its element, and rebuildDocx
\* goes on to its end (the main body and the definitions are written).
C26_MissingIndexSkipped ==
  Rebuilt =>
    /\ {"body"} \cup ({"styles", "numbering"} \cap DOMAIN call.container)
         \subseteq Written
    /\ \A k \in DOMAIN allSegments :
         LET seg == allSegments[k]
             injections == {e \in EventsOf("inject") : ret.log[e].id = seg.id}
             skips == {e \in EventsOf("skip") : ret.log[e].id = seg.id}
         IN IF seg.id \notin DOMAIN translations
            THEN injections = {} /\ skips = {}
            ELSE IF Addressable(seg)
            THEN /\ Cardinality(injections) = 1
                 /\ skips = {}
                 /\ \A e \in injections :
                      /\ ret.log[e].text = translations[seg.id]
                      /\ ret.log[e].pid = seg.paragraphIndex + 1
            ELSE /\ injections = {}
                 /\ Cardinality(skips) = 1

\* C26 witness: a body unit was skipped, and a unit of the body and a unit
\* of the header were injected in the same rebuild.
C26_Witness ==
  /\ Rebuilt
  /\ \E k \in EventsOf("skip") : ret.log[k].part = "body"
  /\ \E k \in EventsOf("inject") : ret.log[k].part = "body"
  /\ \E k \in EventsOf("inject") : ret.log[k].part = "header"
  /\ {"body", "header", "styles"} \subseteq Written

\* The main body when the loop over segmentsByPath has ended.
BodyInjected ==
  Injected(parseDocxContainer(call.container, settings), translations).docs.body

NoAdjacentEmpty(paragraphs) ==
  \A k \in 1..(Len(paragraphs) - 1) :
    hasContent(paragraphs[k]) \/ hasContent(paragraphs[k + 1])

\* C27: after the layout repair of the main body no two consecutive
\* paragraphs are both empty; the removal of empty paragraphs keeps exactly
\* the first paragraph of every maximal run of empty paragraphs (so a single
\* empty paragraph is kept) and removes no paragraph that has text.
C27_EmptyRunsCollapsed ==
  Rebuilt =>
    LET before == BodyInjected
        after == removeEmptyParas(before, 0)
        kept == {after[k].pid : k \in DOMAIN after}
    IN /\ NoAdjacentEmpty(ret.docs.body)
       /\ NoAdjacentEmpty(after)
       /\ after = SelectSeq(before, LAMBDA para : para.pid \in kept)
       /\ \A k \in DOMAIN before :
            before[k].pid \in kept <=>
              \/ hasContent(before[k])
              \/ k = 1
              \/ hasContent(before[k - 1])

\* C27 witness: a run of three empty paragraphs before a paragraph with
\* text was reduced to its first paragraph.
C27_Witness ==
  /\ Rebuilt
  /\ Len(call.container.body) >= 3
  /\ \A k \in 1..3 : ~hasContent(BodyInjected[k])
  /\ Len(ret.docs.body) = Len(call.container.body) - 2
  /\ ret.docs.body[1].pid = 1

====
